---- MODULE Spec2Model ----
(***************************************************************************)
(* Model of the explorer-grid interaction engine: useSelection, useFocus,  *)
(* useKeyboard, useExplorerGrid and the ExplorerGrid component's v-model   *)
(* synchronisation.  Indices are 0-based as in the source; a TLA+ sequence *)
(* position p holds the item with index p-1.  An item is represented by    *)
(* its id (getId is a pure extraction function).                           *)
(***************************************************************************)
EXTENDS Integers, Sequences, FiniteSets

\* ---------------------------------------------------------------- bounds
MaxId == 2
MaxLen == 2
MaxKeyLen == 3
MaxArgLen == 2
MaxCols == 2
MaxVisibleRows == 2
MaxChurnLen == 3
MaxBuffer == 3
MaxTimers == 2
MaxFixedLen == 5
MaxFrames == 2

\* ------------------------------------------------------------- constants
Null == 0
NotFound == 0 - 1

Ids == 1..MaxId
FixedIds == 1..(MaxFixedLen + 1)
KeyIds == 1..(MaxKeyLen + 1)
Modes == {"none", "single", "multiple"}
Directions == {"left", "right", "up", "down", "home", "end",
               "home-global", "end-global", "pageUp", "pageDown"}
NavigationKeys == {"ArrowUp", "ArrowDown", "ArrowLeft", "ArrowRight",
                   "Home", "End", "PageUp", "PageDown"}

VARIABLES
    items,                      \* the current item list (ids in order)
    oldItems,                   \* the list the items watchers last ran for
    pending,                    \* the items watchers are queued, not yet run
    idToIndexMap,               \* id -> index, NotFound when absent
    selectedIds, anchorId,      \* useSelection state
    focusedId,                  \* useFocus state
    mode,                       \* selectionMode option
    columnCount,                \* columnCount option (caller-owned)
    selectOnFocus, clearSelectionOnEmptyClick, rightClickSelect,
    selNotes,                   \* onSelectionChange calls of the last operation
    selArg,                     \* the set passed to the last onSelectionChange
    focusNotes,                 \* onFocusChange calls of the last operation
    ret,                        \* value returned by the last moveFocus
    err,                        \* the last operation threw
    focusedIdModel,             \* the component's focusedId v-model
    focusSyncPending            \* the watcher on that model is queued

\* useTypeahead state
VARIABLES
    currentBuffer,              \* the typed characters, in order
    timeoutId,                  \* handle of the debounce timer, Null when none
    timers                      \* handles of the timers the platform holds

\* useMarquee state and the container it reads
VARIABLES
    enabled,                    \* marqueeEnabled (caller-owned)
    isActive,                   \* a drag is in progress
    rect,                       \* the marquee in content coordinates, or none
    previouslySelected,         \* the base snapshot taken at drag start
    scrollAnimationId,          \* handle of the auto-scroll frame, or Null
    frames,                     \* frame callbacks the platform holds
    lastPointerEvent,           \* the pointer position kept for auto-scroll
    scroll,                     \* the container's scroll offset
    mounted                     \* containerRef.value is set (the grid is mounted)

typeaheadVars == <<currentBuffer, timeoutId, timers>>
marqueeVars == <<enabled, isActive, rect, previouslySelected,
                 scrollAnimationId, frames, lastPointerEvent, scroll, mounted>>

vars == <<items, oldItems, pending, idToIndexMap, selectedIds, anchorId,
          focusedId, mode, columnCount, selectOnFocus,
          clearSelectionOnEmptyClick, rightClickSelect,
          selNotes, selArg, focusNotes, ret, err,
          focusedIdModel, focusSyncPending,
          typeaheadVars, marqueeVars>>

\* --------------------------------------------------------------- helpers
Range(s) == {s[i] : i \in 1..Len(s)}

Min(a, b) == IF a < b THEN a ELSE b
Max(a, b) == IF a > b THEN a ELSE b

SeqsUpTo(S, n) == UNION {[1..k -> S] : k \in 0..n}

IsDistinct(s) == \A i, j \in 1..Len(s) : i # j => s[i] # s[j]

\* item lists: ids are unique within a list
Lists == {s \in SeqsUpTo(Ids, MaxLen) : IsDistinct(s)}

\* lists of the specifications that keep the list fixed
FixedLists == {[i \in 1..n |-> i] : n \in 0..MaxFixedLen}
                 \cup {[i \in 1..n |-> n + 1 - i] : n \in 0..MaxFixedLen}

\* lists of the keyboard specification: ids are not in index order
KeyLists == {[i \in 1..n |-> (i % n) + 1] : n \in 0..MaxKeyLen}

\* lists of the reconciliation specification
ChurnIds == 1..MaxChurnLen
ChurnLists == {s \in SeqsUpTo(ChurnIds, MaxChurnLen) : IsDistinct(s)}

\* Array.prototype.findIndex with the predicate getId(item) === id
findIndex(list, id) ==
    IF \E p \in 1..Len(list) : list[p] = id
    THEN (CHOOSE p \in 1..Len(list) :
              list[p] = id /\ \A q \in 1..(p - 1) : list[q] # id) - 1
    ELSE NotFound

\* items[index] for an index inside the list
At(list, index) == list[index + 1]

InList(list, index) == index >= 0 /\ index < Len(list)

\* ----------------------------------------------------------- IdIndexMap
\* the Map built by rebuildIdIndexMap: a later item with the same id wins
rebuildIdIndexMap(list) ==
    [id \in Range(list) |->
        (CHOOSE p \in 1..Len(list) :
            list[p] = id /\ \A q \in (p + 1)..Len(list) : list[q] # id) - 1]

getIndexById(id) ==
    IF id \in DOMAIN idToIndexMap THEN idToIndexMap[id] ELSE NotFound

getIdByIndex(index) ==
    IF InList(items, index) THEN At(items, index) ELSE Null

\* ------------------------------------------------------- SelectionEngine
\* A selection state is a record [sel, anchor, notes, arg]: the selected
\* set, the anchor, the number of onSelectionChange calls made so far in
\* the running operation and the set passed to the last of them.
SelNow == [sel |-> selectedIds, anchor |-> anchorId, notes |-> 0, arg |-> {}]

notifySel(s) == [s EXCEPT !.notes = @ + 1, !.arg = s.sel]

\* isSelected that never finds the id
isSelected_Never(s, id) == FALSE

isSelected(s, id) == id \in s.sel

select(s, id) ==
    IF mode = "none" THEN s
    ELSE IF id \in s.sel THEN s
    ELSE IF mode = "single" THEN notifySel([s EXCEPT !.sel = {id}])
    ELSE notifySel([s EXCEPT !.sel = @ \cup {id}])

\* deselect that notifies also when the id was not selected
deselect_AlwaysNotifies(s, id) == notifySel([s EXCEPT !.sel = @ \ {id}])

deselect(s, id) ==
    IF id \notin s.sel THEN s
    ELSE notifySel([s EXCEPT !.sel = @ \ {id}])

\* toggle that replaces the set when it selects in mode 'multiple'
toggle_ReplacesInMultiple(s, id) ==
    IF mode = "none" THEN s
    ELSE IF id \in s.sel THEN deselect(s, id)
    ELSE notifySel([s EXCEPT !.sel = {id}])

toggle(s, id) ==
    IF mode = "none" THEN s
    ELSE IF id \in s.sel THEN deselect(s, id)
    ELSE IF mode = "single" THEN notifySel([s EXCEPT !.sel = {id}])
    ELSE select(s, id)

\* selectOnly that clears when the id is already the only selected one
selectOnly_TogglesWhenAlone(s, id) ==
    IF mode = "none" THEN s
    ELSE IF s.sel = {id} THEN notifySel([s EXCEPT !.sel = {}])
    ELSE notifySel([s EXCEPT !.sel = {id}])

selectOnly(s, id) ==
    IF mode = "none" THEN s
    ELSE notifySel([s EXCEPT !.sel = {id}])

selectMultiple(s, ids) ==
    IF mode = "none" THEN s
    ELSE IF mode = "single" /\ Len(ids) > 0
         THEN notifySel([s EXCEPT !.sel = {ids[Len(ids)]}])
    ELSE notifySel([s EXCEPT !.sel = @ \cup Range(ids)])

\* selectRange that keeps every id in mode 'single'
selectRange_NoCollapse(s, ids) ==
    IF mode = "none" THEN s
    ELSE notifySel([s EXCEPT !.sel = Range(ids)])

selectRange(s, ids) ==
    IF mode = "none" THEN s
    ELSE IF mode = "single" /\ Len(ids) > 0
         THEN notifySel([s EXCEPT !.sel = {ids[Len(ids)]}])
    ELSE notifySel([s EXCEPT !.sel = Range(ids)])

\* selectAll that adds to the selected set instead of replacing it
selectAll_Union(s, ids) ==
    IF mode = "none" \/ mode = "single" THEN s
    ELSE notifySel([s EXCEPT !.sel = @ \cup Range(ids)])

selectAll(s, ids) ==
    IF mode = "none" \/ mode = "single" THEN s
    ELSE notifySel([s EXCEPT !.sel = Range(ids)])

\* clear that also drops the anchor
clear_ResetsAnchor(s) ==
    IF s.sel = {} THEN s
    ELSE notifySel([s EXCEPT !.sel = {}, !.anchor = Null])

clear(s) ==
    IF s.sel = {} THEN s
    ELSE notifySel([s EXCEPT !.sel = {}])

setAnchor(s, id) == [s EXCEPT !.anchor = id]

\* ----------------------------------------------------------- FocusEngine
\* A focus state is a record [fid, notes]: the focused id and the number of
\* onFocusChange calls made so far in the running operation.
FocusNow == [fid |-> focusedId, notes |-> 0]

notifyFocus(f) == [f EXCEPT !.notes = @ + 1]

\* useFocus.focusedIndex: a linear scan over the live list
focusedIndexOf(f) == IF f.fid = Null THEN NotFound ELSE findIndex(items, f.fid)

focusedIndex == focusedIndexOf(FocusNow)

\* setFocusById without the existence check
setFocusById_Unchecked(f, id) == notifyFocus([f EXCEPT !.fid = id])

setFocusById(f, id) ==
    IF \E p \in 1..Len(items) : items[p] = id
    THEN notifyFocus([f EXCEPT !.fid = id])
    ELSE f

setFocusByIndex(f, index) ==
    IF index >= 0 /\ index < Len(items)
    THEN notifyFocus([f EXCEPT !.fid = At(items, index)])
    ELSE f

clearFocus(f) == notifyFocus([f EXCEPT !.fid = Null])

\* calculateTargetIndex whose 'end' is not clamped to the last item
calculateTargetIndex_EndUnclamped(currentIndex, direction, cols, totalItems, visibleRows) ==
    IF totalItems = 0 THEN NotFound
    ELSE IF currentIndex < 0 THEN 0
    ELSE CASE direction = "left" -> Max(0, currentIndex - 1)
           [] direction = "right" -> Min(totalItems - 1, currentIndex + 1)
           [] direction = "up" -> Max(0, currentIndex - cols)
           [] direction = "down" -> Min(totalItems - 1, currentIndex + cols)
           [] direction = "home" -> currentIndex - (currentIndex % cols)
           [] direction = "end" ->
                (currentIndex - (currentIndex % cols)) + cols - 1
           [] direction = "home-global" -> 0
           [] direction = "end-global" -> totalItems - 1
           [] direction = "pageUp" -> Max(0, currentIndex - cols * visibleRows)
           [] direction = "pageDown" ->
                Min(totalItems - 1, currentIndex + cols * visibleRows)
           [] OTHER -> currentIndex

calculateTargetIndex(currentIndex, direction, cols, totalItems, visibleRows) ==
    IF totalItems = 0 THEN NotFound
    ELSE IF currentIndex < 0 THEN 0
    ELSE CASE direction = "left" -> Max(0, currentIndex - 1)
           [] direction = "right" -> Min(totalItems - 1, currentIndex + 1)
           [] direction = "up" -> Max(0, currentIndex - cols)
           [] direction = "down" -> Min(totalItems - 1, currentIndex + cols)
           [] direction = "home" -> currentIndex - (currentIndex % cols)
           [] direction = "end" ->
                Min(totalItems - 1,
                    (currentIndex - (currentIndex % cols)) + cols - 1)
           [] direction = "home-global" -> 0
           [] direction = "end-global" -> totalItems - 1
           [] direction = "pageUp" -> Max(0, currentIndex - cols * visibleRows)
           [] direction = "pageDown" ->
                Min(totalItems - 1, currentIndex + cols * visibleRows)
           [] OTHER -> currentIndex

\* the index moveFocus computes and returns
moveFocusTarget(f, direction, visibleRows) ==
    IF Len(items) = 0 THEN NotFound
    ELSE calculateTargetIndex(focusedIndexOf(f), direction, columnCount,
                              Len(items), visibleRows)

\* moveFocus that clears the focus when the list is empty
moveFocus_ClearsWhenEmpty(f, direction, visibleRows) ==
    IF Len(items) = 0 THEN clearFocus(f)
    ELSE IF moveFocusTarget(f, direction, visibleRows) # focusedIndexOf(f)
            /\ moveFocusTarget(f, direction, visibleRows) >= 0
         THEN setFocusByIndex(f, moveFocusTarget(f, direction, visibleRows))
    ELSE f

\* the focus state moveFocus leaves
moveFocus(f, direction, visibleRows) ==
    IF Len(items) = 0 THEN f
    ELSE IF moveFocusTarget(f, direction, visibleRows) # focusedIndexOf(f)
            /\ moveFocusTarget(f, direction, visibleRows) >= 0
         THEN setFocusByIndex(f, moveFocusTarget(f, direction, visibleRows))
    ELSE f

\* ------------------------------------------------------ applying results
\* an operation leaves selection state s and focus state f, returns r
\* (NotFound - 1 when it returns nothing) and did or did not throw
NoRet == 0 - 2

ApplyState(s, f, r, e) ==
    /\ selectedIds' = s.sel
    /\ anchorId' = s.anchor
    /\ selNotes' = s.notes
    /\ selArg' = s.arg
    /\ focusedId' = f.fid
    /\ focusNotes' = f.notes
    /\ ret' = r
    /\ err' = e

\* the component's onFocusChange: the id is written to the focusedId model
onFocusChange(f) == IF f.notes > 0 THEN f.fid ELSE focusedIdModel

\* an operation's outcome with its callbacks: a write that changes the model
\* queues the model's watcher
Apply(s, f, r, e) ==
    /\ ApplyState(s, f, r, e)
    /\ focusedIdModel' = onFocusChange(f)
    /\ focusSyncPending' =
           (focusSyncPending \/ onFocusChange(f) # focusedIdModel)

ListUnchanged == UNCHANGED <<items, oldItems, pending, idToIndexMap>>
OptionsUnchanged ==
    UNCHANGED <<mode, columnCount, selectOnFocus,
                clearSelectionOnEmptyClick, rightClickSelect>>
TypeaheadUnchanged == UNCHANGED typeaheadVars
MarqueeUnchanged == UNCHANGED marqueeVars

\* ------------------------------------------ SelectionEngine operations
Select(id) ==
    Apply(select(SelNow, id), FocusNow, NoRet, FALSE)
    /\ ListUnchanged /\ OptionsUnchanged
    /\ TypeaheadUnchanged /\ MarqueeUnchanged
Deselect(id) ==
    Apply(deselect(SelNow, id), FocusNow, NoRet, FALSE)
    /\ ListUnchanged /\ OptionsUnchanged
    /\ TypeaheadUnchanged /\ MarqueeUnchanged
Toggle(id) ==
    Apply(toggle(SelNow, id), FocusNow, NoRet, FALSE)
    /\ ListUnchanged /\ OptionsUnchanged
    /\ TypeaheadUnchanged /\ MarqueeUnchanged
SelectOnly(id) ==
    Apply(selectOnly(SelNow, id), FocusNow, NoRet, FALSE)
    /\ ListUnchanged /\ OptionsUnchanged
    /\ TypeaheadUnchanged /\ MarqueeUnchanged
SelectMultiple(ids) ==
    Apply(selectMultiple(SelNow, ids), FocusNow, NoRet, FALSE)
    /\ ListUnchanged /\ OptionsUnchanged
    /\ TypeaheadUnchanged /\ MarqueeUnchanged
SelectRange(ids) ==
    Apply(selectRange(SelNow, ids), FocusNow, NoRet, FALSE)
    /\ ListUnchanged /\ OptionsUnchanged
    /\ TypeaheadUnchanged /\ MarqueeUnchanged
SelectAll(ids) ==
    Apply(selectAll(SelNow, ids), FocusNow, NoRet, FALSE)
    /\ ListUnchanged /\ OptionsUnchanged
    /\ TypeaheadUnchanged /\ MarqueeUnchanged
Clear ==
    Apply(clear(SelNow), FocusNow, NoRet, FALSE)
    /\ ListUnchanged /\ OptionsUnchanged
    /\ TypeaheadUnchanged /\ MarqueeUnchanged
SetAnchor(id) ==
    Apply(setAnchor(SelNow, id), FocusNow, NoRet, FALSE)
    /\ ListUnchanged /\ OptionsUnchanged
    /\ TypeaheadUnchanged /\ MarqueeUnchanged

\* ------------------------------------------------ FocusEngine operations
SetFocusById(id) ==
    Apply(SelNow, setFocusById(FocusNow, id), NoRet, FALSE)
    /\ ListUnchanged /\ OptionsUnchanged
    /\ TypeaheadUnchanged /\ MarqueeUnchanged
SetFocusByIndex(index) ==
    Apply(SelNow, setFocusByIndex(FocusNow, index), NoRet, FALSE)
    /\ ListUnchanged /\ OptionsUnchanged
    /\ TypeaheadUnchanged /\ MarqueeUnchanged
ClearFocus ==
    Apply(SelNow, clearFocus(FocusNow), NoRet, FALSE)
    /\ ListUnchanged /\ OptionsUnchanged
    /\ TypeaheadUnchanged /\ MarqueeUnchanged
MoveFocus(direction, visibleRows) ==
    Apply(SelNow, moveFocus(FocusNow, direction, visibleRows),
          moveFocusTarget(FocusNow, direction, visibleRows), FALSE)
    /\ ListUnchanged /\ OptionsUnchanged
    /\ TypeaheadUnchanged /\ MarqueeUnchanged

\* -------------------------------------------------------- KeyboardRouter
\* A key event is [key, shift, mod]; mod is ctrlKey || metaKey.
Keys == NavigationKeys \cup {"Enter", " ", "a", "Escape", "Tab"}
KeyEvents == [key : Keys, shift : BOOLEAN, mod : BOOLEAN]

\* the visibleRows values tried with a direction: only the page directions
\* read it
RowsFor(direction) ==
    IF direction \in {"pageUp", "pageDown"} THEN 0..MaxVisibleRows
    ELSE {MaxVisibleRows}
KeyRowsFor(e) ==
    IF e.key \in {"PageUp", "PageDown"} THEN 0..MaxVisibleRows
    ELSE {MaxVisibleRows}

\* getIdsInRange reads items[i] for every i from the smaller to the larger
\* index; getId of a missing item throws
rangeThrows(fromIndex, toIndex) ==
    \E i \in Min(fromIndex, toIndex)..Max(fromIndex, toIndex) :
        ~InList(items, i)

getIdsInRange(fromIndex, toIndex) ==
    LET start == Min(fromIndex, toIndex)
        end == Max(fromIndex, toIndex)
    IN [k \in 1..(end - start + 1) |-> At(items, start + k - 1)]

\* keyDirection whose Home stays in the row when Ctrl or Cmd is held
keyDirection_HomeRowOnly(e) ==
    CASE e.key = "ArrowUp" -> "up"
      [] e.key = "ArrowDown" -> "down"
      [] e.key = "ArrowLeft" -> "left"
      [] e.key = "ArrowRight" -> "right"
      [] e.key = "Home" -> "home"
      [] e.key = "End" -> IF e.mod THEN "end-global" ELSE "end"
      [] e.key = "PageUp" -> "pageUp"
      [] e.key = "PageDown" -> "pageDown"

keyDirection(e) ==
    CASE e.key = "ArrowUp" -> "up"
      [] e.key = "ArrowDown" -> "down"
      [] e.key = "ArrowLeft" -> "left"
      [] e.key = "ArrowRight" -> "right"
      [] e.key = "Home" -> IF e.mod THEN "home-global" ELSE "home"
      [] e.key = "End" -> IF e.mod THEN "end-global" ELSE "end"
      [] e.key = "PageUp" -> "pageUp"
      [] e.key = "PageDown" -> "pageDown"

\* keyAnchorIndex that starts the range from the focused item
keyAnchorIndex_FromFocus(s, f) ==
    IF focusedIndexOf(f) >= 0 THEN focusedIndexOf(f) ELSE 0

\* the index the range of a Shift+navigation starts from
keyAnchorIndex(s, f) ==
    LET anchorIndex == IF s.anchor # Null THEN findIndex(items, s.anchor)
                       ELSE focusedIndexOf(f)
    IN IF anchorIndex >= 0 THEN anchorIndex ELSE 0

\* useKeyboard.handleKeydown: the focus state it leaves
keydownFocus(f, e, visibleRows) ==
    IF e.key \in NavigationKeys
    THEN moveFocus(f, keyDirection(e), visibleRows)
    ELSE f

\* keydownSelection whose plain navigation selects without re-anchoring
keydownSelection_NoReAnchor(s, f, e, visibleRows) ==
    LET multiSelect == mode = "multiple" IN
    IF e.key \in NavigationKeys THEN
        LET newIndex == moveFocusTarget(f, keyDirection(e), visibleRows) IN
        IF newIndex < 0 THEN s
        ELSE IF e.shift /\ multiSelect
             THEN IF rangeThrows(keyAnchorIndex(s, f), newIndex) THEN s
                  ELSE selectRange(s, getIdsInRange(keyAnchorIndex(s, f), newIndex))
        ELSE IF e.mod THEN s
        ELSE IF selectOnFocus THEN selectOnly(s, At(items, newIndex))
        ELSE s
    ELSE IF e.key = "Enter" THEN s
    ELSE IF e.key = " " THEN
        IF f.fid # Null
        THEN setAnchor(IF multiSelect THEN toggle(s, f.fid)
                       ELSE selectOnly(s, f.fid), f.fid)
        ELSE s
    ELSE IF e.key = "a" /\ e.mod /\ multiSelect THEN selectAll(s, items)
    ELSE IF e.key = "Escape" THEN clear(s)
    ELSE s

\* useKeyboard.handleKeydown: the selection state it leaves
keydownSelection(s, f, e, visibleRows) ==
    LET multiSelect == mode = "multiple" IN
    IF e.key \in NavigationKeys THEN
        LET newIndex == moveFocusTarget(f, keyDirection(e), visibleRows) IN
        IF newIndex < 0 THEN s
        ELSE IF e.shift /\ multiSelect
             THEN IF rangeThrows(keyAnchorIndex(s, f), newIndex) THEN s
                  ELSE selectRange(s, getIdsInRange(keyAnchorIndex(s, f), newIndex))
        ELSE IF e.mod THEN s
        ELSE IF selectOnFocus
             THEN setAnchor(selectOnly(s, At(items, newIndex)), At(items, newIndex))
        ELSE s
    ELSE IF e.key = "Enter" THEN s
    ELSE IF e.key = " " THEN
        IF f.fid # Null
        THEN setAnchor(IF multiSelect THEN toggle(s, f.fid)
                       ELSE selectOnly(s, f.fid), f.fid)
        ELSE s
    ELSE IF e.key = "a" /\ e.mod /\ multiSelect THEN selectAll(s, items)
    ELSE IF e.key = "Escape" THEN clear(s)
    ELSE s

\* useKeyboard.handleKeydown: it throws when the range reads a missing item
keydownThrows(s, f, e, visibleRows) ==
    /\ e.key \in NavigationKeys
    /\ moveFocusTarget(f, keyDirection(e), visibleRows) >= 0
    /\ e.shift /\ mode = "multiple"
    /\ rangeThrows(keyAnchorIndex(s, f),
                   moveFocusTarget(f, keyDirection(e), visibleRows))

KeyboardHandleKeydown(e, visibleRows) ==
    Apply(keydownSelection(SelNow, FocusNow, e, visibleRows),
          keydownFocus(FocusNow, e, visibleRows), NoRet,
          keydownThrows(SelNow, FocusNow, e, visibleRows))
    /\ ListUnchanged /\ OptionsUnchanged
    /\ TypeaheadUnchanged /\ MarqueeUnchanged

\* ------------------------------------------------------ TypeaheadMatcher
\* Labels and the buffer are sequences of characters; a key is a string,
\* one character long for a printable key.
Chars == {"a", "A", "b"}
TypeKeys == Chars \cup {" ", "Enter", "ArrowDown", "Escape"}

\* A key event of the typeahead is [key, shift, mod, alt]; mod is
\* ctrlKey || metaKey.
TypeEvents == [key : TypeKeys, shift : BOOLEAN, mod : BOOLEAN, alt : BOOLEAN]

\* e.key.length
keyLength(key) == IF key \in Chars \cup {" "} THEN 1 ELSE Len(key)

\* String.prototype.toLowerCase, character by character
toLowerCase(s) == [i \in 1..Len(s) |-> IF s[i] = "A" THEN "a" ELSE s[i]]

\* String.prototype.startsWith
startsWith(s, prefix) ==
    /\ Len(prefix) <= Len(s)
    /\ \A i \in 1..Len(prefix) : s[i] = prefix[i]

\* getLabel of the item with the given id
getLabel(id) ==
    CASE id = 1 -> <<"b">>
      [] id = 2 -> <<"A", "b">>
      [] id = 3 -> <<"a", "b">>
      [] OTHER -> <<"a">>

\* A typeahead state is a record [buf, tid, timers]: the buffer, the handle
\* kept in timeoutId and the timers the platform holds.
TypeaheadNow == [buf |-> currentBuffer, tid |-> timeoutId, timers |-> timers]

TimerIds == 1..MaxTimers

\* the handle setTimeout returns: the least one outside the given handles,
\* which are the pending ones and the one just cancelled
newTimer(held) == CHOOSE h \in TimerIds : h \notin held /\ \A g \in TimerIds \ held : h <= g

\* clearBuffer that cancels the timer and keeps the characters
clearBuffer_KeepsBuffer(t) ==
    [t EXCEPT !.tid = Null,
              !.timers = IF t.tid # Null THEN @ \ {t.tid} ELSE @]

clearBuffer(t) ==
    [buf |-> << >>, tid |-> Null,
     timers |-> IF t.tid # Null THEN t.timers \ {t.tid} ELSE t.timers]

\* resetDebounce that schedules a timer without cancelling the pending one
resetDebounce_NoCancel(t) ==
    [t EXCEPT !.tid = newTimer(t.timers \cup {t.tid}),
              !.timers = @ \cup {newTimer(t.timers \cup {t.tid})}]

resetDebounce(t) ==
    LET kept == IF t.tid # Null THEN t.timers \ {t.tid} ELSE t.timers
        id == newTimer(kept \cup {t.tid})
    IN [t EXCEPT !.tid = id, !.timers = kept \cup {id}]

\* the label of items[i] starts with the search string, case ignored
labelMatches(i, normalizedSearch) ==
    startsWith(toLowerCase(getLabel(At(items, i))), normalizedSearch)

\* findMatch that always scans from the first item
findMatch_FromStart(searchString, startIndex) ==
    IF Len(items) = 0 THEN NotFound
    ELSE IF \E i \in 0..(Len(items) - 1) :
                labelMatches(i, toLowerCase(searchString))
    THEN CHOOSE i \in 0..(Len(items) - 1) :
            /\ labelMatches(i, toLowerCase(searchString))
            /\ \A j \in 0..(i - 1) :
                  ~labelMatches(j, toLowerCase(searchString))
    ELSE NotFound

findMatch(searchString, startIndex) ==
    LET itemCount == Len(items)
        normalizedSearch == toLowerCase(searchString)
    IN IF itemCount = 0 THEN NotFound
       ELSE IF \E i \in startIndex..(itemCount - 1) :
                   labelMatches(i, normalizedSearch)
       THEN CHOOSE i \in startIndex..(itemCount - 1) :
               /\ labelMatches(i, normalizedSearch)
               /\ \A j \in startIndex..(i - 1) :
                     ~labelMatches(j, normalizedSearch)
       ELSE IF \E i \in 0..(startIndex - 1) : labelMatches(i, normalizedSearch)
       THEN CHOOSE i \in 0..(startIndex - 1) :
               /\ labelMatches(i, normalizedSearch)
               /\ \A j \in 0..(i - 1) : ~labelMatches(j, normalizedSearch)
       ELSE NotFound

\* the test that also lets the space key into the buffer
typeaheadAccepts_Space(e) == keyLength(e.key) = 1 /\ ~e.mod /\ ~e.alt

\* handleKeypress goes on past its two early returns
typeaheadAccepts(e) ==
    /\ ~(keyLength(e.key) # 1 \/ e.mod \/ e.alt)
    /\ e.key # " "

\* useTypeahead.handleKeypress: the typeahead state it leaves
keypressTypeahead(t, e) ==
    IF typeaheadAccepts(e)
    THEN resetDebounce([t EXCEPT !.buf = Append(@, e.key)])
    ELSE t

\* useTypeahead.handleKeypress: the focus state it leaves
keypressFocus(f, t, e) ==
    IF typeaheadAccepts(e) THEN
        LET startIndex == focusedIndexOf(f) + 1
            matchIndex == findMatch(Append(t.buf, e.key),
                                    IF startIndex >= 0 THEN startIndex ELSE 0)
        IN IF matchIndex >= 0 THEN setFocusByIndex(f, matchIndex) ELSE f
    ELSE f

\* handleKeypress that selects the item the focus jumps to
keypressSelection_SelectsOnFocus(s, f, t, e) ==
    IF selectOnFocus /\ keypressFocus(f, t, e).notes > 0
    THEN setAnchor(selectOnly(s, keypressFocus(f, t, e).fid),
                   keypressFocus(f, t, e).fid)
    ELSE s

\* useTypeahead.handleKeypress: the selection state it leaves; the typeahead
\* is given the focus only
keypressSelection(s, f, t, e) == s

ApplyTypeahead(t) ==
    /\ currentBuffer' = t.buf
    /\ timeoutId' = t.tid
    /\ timers' = t.timers

\* the platform has a handle left for the timer the keypress schedules, and
\* the buffer stays within the length explored
CanType(e) ==
    typeaheadAccepts(e) =>
        /\ Len(currentBuffer) < MaxBuffer
        /\ TimerIds \ (timers \cup {timeoutId}) # {}

TypeaheadHandleKeypress(e) ==
    /\ CanType(e)
    /\ ApplyTypeahead(keypressTypeahead(TypeaheadNow, e))
    /\ Apply(keypressSelection(SelNow, FocusNow, TypeaheadNow, e),
             keypressFocus(FocusNow, TypeaheadNow, e), NoRet, FALSE)
    /\ ListUnchanged /\ OptionsUnchanged /\ MarqueeUnchanged

\* typeahead.clearBuffer()
TypeaheadClearBuffer ==
    /\ ApplyTypeahead(clearBuffer(TypeaheadNow))
    /\ Apply(SelNow, FocusNow, NoRet, FALSE)
    /\ ListUnchanged /\ OptionsUnchanged /\ MarqueeUnchanged

\* the debounce timer h expires: its callback runs clearBuffer
TimerExpires(h) ==
    /\ h \in timers
    /\ ApplyTypeahead(clearBuffer([TypeaheadNow EXCEPT !.timers = @ \ {h}]))
    /\ Apply(SelNow, FocusNow, NoRet, FALSE)
    /\ ListUnchanged /\ OptionsUnchanged /\ MarqueeUnchanged

\* useExplorerGrid.handleKeydown: printable keys go to the typeahead, the
\* others to the keyboard handler
\* the test of handleKeydown, typeaheadEnabled at its default of true
routesToTypeahead(e) ==
    keyLength(e.key) = 1 /\ ~e.mod /\ ~e.alt /\ e.key # " "

GridHandleKeydown(e, visibleRows) ==
    IF routesToTypeahead(e)
    THEN TypeaheadHandleKeypress(e)
    ELSE KeyboardHandleKeydown(e, visibleRows)

\* ------------------------------------------------------ GridOrchestrator
GridToggle(id) ==
    Apply(toggle(SelNow, id), FocusNow, NoRet, FALSE)
    /\ ListUnchanged /\ OptionsUnchanged
    /\ TypeaheadUnchanged /\ MarqueeUnchanged

GridSelectOnly(id) ==
    Apply(setAnchor(selectOnly(SelNow, id), id), FocusNow, NoRet, FALSE)
    /\ ListUnchanged /\ OptionsUnchanged
    /\ TypeaheadUnchanged /\ MarqueeUnchanged

\* grid.selectRange that moves the anchor to the end of the range
gridSelectRange_ReAnchors(s, fromId, toId) ==
    LET fromIndex == getIndexById(fromId)
        toIndex == getIndexById(toId)
    IN IF fromIndex >= 0 /\ toIndex >= 0 /\ ~rangeThrows(fromIndex, toIndex)
       THEN setAnchor(selectRange(s, getIdsInRange(fromIndex, toIndex)), toId)
       ELSE s

\* grid.selectRange(fromId, toId): indices from the map, items from the list
gridSelectRange(s, fromId, toId) ==
    LET fromIndex == getIndexById(fromId)
        toIndex == getIndexById(toId)
    IN IF fromIndex >= 0 /\ toIndex >= 0 /\ ~rangeThrows(fromIndex, toIndex)
       THEN selectRange(s, getIdsInRange(fromIndex, toIndex))
       ELSE s

gridSelectRangeThrows(fromId, toId) ==
    /\ getIndexById(fromId) >= 0
    /\ getIndexById(toId) >= 0
    /\ rangeThrows(getIndexById(fromId), getIndexById(toId))

GridSelectRange(fromId, toId) ==
    Apply(gridSelectRange(SelNow, fromId, toId), FocusNow, NoRet,
          gridSelectRangeThrows(fromId, toId))
    /\ ListUnchanged /\ OptionsUnchanged
    /\ TypeaheadUnchanged /\ MarqueeUnchanged

GridSelectAll ==
    Apply(IF mode # "multiple" THEN SelNow ELSE selectAll(SelNow, items),
          FocusNow, NoRet, FALSE)
    /\ ListUnchanged /\ OptionsUnchanged
    /\ TypeaheadUnchanged /\ MarqueeUnchanged

GridClearSelection ==
    Apply(clear(SelNow), FocusNow, NoRet, FALSE)
    /\ ListUnchanged /\ OptionsUnchanged
    /\ TypeaheadUnchanged /\ MarqueeUnchanged

\* A pointer event with its hit test: hit is "empty", "item" (with itemId)
\* or "noid" (an item hit without an id); button 0 is left, 2 is right.
Hits(ids) == [type : {"empty", "noid"}, itemId : {Null}]
                \cup [type : {"item"}, itemId : ids]
PointerEvents(ids) ==
    [hit : Hits(ids), button : {0, 2}, shift : BOOLEAN, mod : BOOLEAN]

\* handlePointerDown whose Ctrl/Cmd+click toggles without re-anchoring
pointerDownSelection_CtrlKeepsAnchor(s, e) ==
    LET id == e.hit.itemId IN
    IF e.hit.type = "empty" THEN
        IF clearSelectionOnEmptyClick /\ ~e.mod /\ ~e.shift THEN clear(s) ELSE s
    ELSE IF e.hit.type = "noid" THEN s
    ELSE IF e.button = 2 THEN
        IF rightClickSelect /\ ~isSelected(s, id)
        THEN setAnchor(selectOnly(s, id), id)
        ELSE s
    ELSE IF e.shift /\ mode = "multiple" THEN
        IF s.anchor # Null
        THEN gridSelectRange(s, s.anchor, id)
        ELSE setAnchor(selectOnly(s, id), id)
    ELSE IF e.mod /\ mode = "multiple" THEN toggle(s, id)
    ELSE setAnchor(selectOnly(s, id), id)

pointerDownSelection(s, e) ==
    LET id == e.hit.itemId IN
    IF e.hit.type = "empty" THEN
        IF clearSelectionOnEmptyClick /\ ~e.mod /\ ~e.shift THEN clear(s) ELSE s
    ELSE IF e.hit.type = "noid" THEN s
    ELSE IF e.button = 2 THEN
        IF rightClickSelect /\ ~isSelected(s, id)
        THEN setAnchor(selectOnly(s, id), id)
        ELSE s
    ELSE IF e.shift /\ mode = "multiple" THEN
        IF s.anchor # Null
        THEN gridSelectRange(s, s.anchor, id)
        ELSE setAnchor(selectOnly(s, id), id)
    ELSE IF e.mod /\ mode = "multiple" THEN setAnchor(toggle(s, id), id)
    ELSE setAnchor(selectOnly(s, id), id)

pointerDownThrows(s, e) ==
    /\ e.hit.type = "item" /\ e.button # 2
    /\ e.shift /\ mode = "multiple" /\ s.anchor # Null
    /\ gridSelectRangeThrows(s.anchor, e.hit.itemId)

\* handlePointerDown that does not focus an item that is already selected
pointerDownFocus_SkipsSelected(s, f, e) ==
    IF e.hit.type = "item" /\ ~pointerDownThrows(s, e)
       /\ ~isSelected(s, e.hit.itemId)
    THEN setFocusById(f, e.hit.itemId)
    ELSE f

pointerDownFocus(s, f, e) ==
    IF e.hit.type = "item" /\ ~pointerDownThrows(s, e)
    THEN setFocusById(f, e.hit.itemId)
    ELSE f

HandlePointerDown(e) ==
    Apply(pointerDownSelection(SelNow, e), pointerDownFocus(SelNow, FocusNow, e),
          NoRet, pointerDownThrows(SelNow, e))
    /\ ListUnchanged /\ OptionsUnchanged
    /\ TypeaheadUnchanged /\ MarqueeUnchanged

\* the application replaces the item list: both items watchers are queued
\* (flush 'pre'), nothing else runs
ReplaceItems(list) ==
    /\ list # items
    /\ items' = list
    /\ pending' = TRUE
    /\ UNCHANGED <<oldItems, idToIndexMap>>
    /\ Apply(SelNow, FocusNow, NoRet, FALSE)
    /\ OptionsUnchanged
    /\ TypeaheadUnchanged /\ MarqueeUnchanged

\* reconciliation that refocuses the first item whatever the old position
reconcileFocus_FirstItem(f, map, newItems, old) ==
    IF f.fid # Null /\ f.fid \notin DOMAIN map THEN
        IF findIndex(old, f.fid) >= 0 THEN
            IF Len(newItems) > 0 THEN setFocusByIndex(f, 0)
            ELSE clearFocus(f)
        ELSE f
    ELSE f

\* reconciliation of the focus (second items watcher), the map rebuilt
reconcileFocus(f, map, newItems, old) ==
    IF f.fid # Null /\ f.fid \notin DOMAIN map THEN
        LET oldIndex == findIndex(old, f.fid) IN
        IF oldIndex >= 0 THEN
            LET newIndex == Min(oldIndex, Len(newItems) - 1) IN
            IF newIndex >= 0 THEN setFocusByIndex(f, newIndex)
            ELSE clearFocus(f)
        ELSE f
    ELSE f

\* the orders in which a Set holding the ids S can iterate
Enumerations(S) ==
    {q \in [1..Cardinality(S) -> S] : IsDistinct(q)}

\* pruning that also drops an anchor whose item left the list
reconcileSelection_DropsAnchor(s, pruned) ==
    IF Len(pruned) # Cardinality(s.sel)
    THEN selectRange([s EXCEPT !.anchor =
                         IF @ \in Range(items) THEN @ ELSE Null], pruned)
    ELSE s

\* pruning of the selection; pruned lists the kept ids in the Set's order
reconcileSelection(s, pruned) ==
    IF Len(pruned) # Cardinality(s.sel) THEN selectRange(s, pruned) ELSE s

\* the scheduler runs the queued watchers: the map is rebuilt, then focus
\* and selection are reconciled
FlushItemsWatch ==
    /\ pending
    /\ pending' = FALSE
    /\ oldItems' = items
    /\ idToIndexMap' = rebuildIdIndexMap(items)
    /\ UNCHANGED items
    /\ \E pruned \in Enumerations(selectedIds \cap Range(items)) :
          Apply(reconcileSelection(SelNow, pruned),
                reconcileFocus(FocusNow, rebuildIdIndexMap(items), items, oldItems),
                NoRet, FALSE)
    /\ OptionsUnchanged
    /\ TypeaheadUnchanged /\ MarqueeUnchanged

\* ------------------------------------------------ ExplorerGrid component
\* watch(selectedIds v-model): an external value that differs from the
\* internal set is assigned to grid.selectedIds
SyncSelectedIds(newIds) ==
    /\ newIds # selectedIds
    /\ selectedIds' = newIds
    /\ UNCHANGED <<anchorId, focusedId>>
    /\ selNotes' = 0 /\ selArg' = {} /\ focusNotes' = 0
    /\ ret' = NoRet /\ err' = FALSE
    /\ UNCHANGED <<focusedIdModel, focusSyncPending>>
    /\ ListUnchanged /\ OptionsUnchanged
    /\ TypeaheadUnchanged /\ MarqueeUnchanged

\* the parent writes the focusedId v-model: the model's watcher is queued
AssignFocusedId(v) ==
    /\ v # focusedIdModel
    /\ focusedIdModel' = v
    /\ focusSyncPending' = TRUE
    /\ ApplyState(SelNow, FocusNow, NoRet, FALSE)
    /\ ListUnchanged /\ OptionsUnchanged
    /\ TypeaheadUnchanged /\ MarqueeUnchanged

\* watch(focusedId v-model): a value that differs from the internal focus
\* is passed to grid.focusById unless it is null
syncFocusedId(f) ==
    IF focusedIdModel # f.fid /\ focusedIdModel # Null
    THEN setFocusById(f, focusedIdModel)
    ELSE f

FlushFocusWatch ==
    /\ focusSyncPending
    /\ ApplyState(SelNow, syncFocusedId(FocusNow), NoRet, FALSE)
    /\ focusedIdModel' = onFocusChange(syncFocusedId(FocusNow))
    /\ focusSyncPending' = FALSE
    /\ ListUnchanged /\ OptionsUnchanged
    /\ TypeaheadUnchanged /\ MarqueeUnchanged

\* ------------------------------------------------------------ MarqueeEngine
EDGE_THRESHOLD == 40
SCROLL_SPEED == 15

\* null held by a ref of an object (rect, lastPointerEvent)
NoObject == << >>

\* the props that place the items, at their defaults
props == [itemHeight |-> 100, itemWidth |-> 100, gap |-> 8, headerOffset |-> 0]

\* containerRef.value.getBoundingClientRect(): a viewport two columns wide
\* and shorter than two rows
containerRect == [left |-> 10, top |-> 20, width |-> 216, height |-> 209]

\* the component's columnCount for that width
gridColumnCount ==
    Max(1, (containerRect.width + props.gap) \div (props.itemWidth + props.gap))

\* ItemId is string | number. A number id n is n; the string id whose text
\* is the decimal of n is 10 + n; the string id "a", "b", "c" is 21, 22, 23.
NumberIds == 1..3
DigitStringIds == {10 + n : n \in NumberIds}
WordIds == 21..23

decimal(n) == CASE n = 1 -> "1" [] n = 2 -> "2" [] OTHER -> "3"

\* the text of an id, as the binding :data-eg-id="getId(item)" renders it
dataEgId(id) ==
    CASE id \in NumberIds -> decimal(id)
      [] id \in DigitStringIds -> decimal(id - 10)
      [] id = 21 -> "a"
      [] id = 22 -> "b"
      [] OTHER -> "c"

\* a text of digits is parsed to a number, any other text is the string id
getItemIdFromElement(text) ==
    IF \E n \in NumberIds : decimal(n) = text
    THEN CHOOSE n \in NumberIds : decimal(n) = text
    ELSE CHOOSE id \in WordIds : dataEgId(id) = text

\* lists of the marquee specification: number and word ids, and the same
\* with a string id of digits at index 0
MarqueeLists == {<<1, 2, 21, 22>>, <<11, 2, 21, 22>>}

rowCount == (Len(items) + columnCount - 1) \div columnCount

\* the rows the virtualizer has rendered: any window of adjacent rows
RowWindows == {a..b : a \in 0..(rowCount - 1), b \in 0..(rowCount - 1)} \ {{}}

renderedIndices(rows) ==
    {i \in 0..(Len(items) - 1) : (i \div columnCount) \in rows}

DOMRect(x, y, width, height) ==
    [left |-> x, top |-> y, right |-> x + width, bottom |-> y + height]

\* el.getBoundingClientRect() of the element of items[i] under scroll sc
itemRect(i, sc) ==
    DOMRect(containerRect.left - sc.x
                + (i % columnCount) * (props.itemWidth + props.gap) + props.gap,
            containerRect.top - sc.y
                + (i \div columnCount) * (props.itemHeight + props.gap)
                + props.gap + props.headerOffset,
            props.itemWidth, props.itemHeight)

\* the largest scroll offsets the container takes
scrollMax ==
    [x |-> 0,
     y |-> Max(0, rowCount * (props.itemHeight + props.gap) + props.gap
                    + props.headerOffset - containerRect.height)]

\* an assignment to scrollLeft / scrollTop is clamped by the container
scrollBy(sc, v) ==
    [x |-> Max(0, Min(sc.x + v.x, scrollMax.x)),
     y |-> Max(0, Min(sc.y + v.y, scrollMax.y))]

\* useVirtualGrid.scrollToIndex: the position of the item's row
scrollRowIndex(index) == index \div columnCount
scrollItemTop(index) ==
    scrollRowIndex(index) * (props.itemHeight + props.gap)
        + props.gap + props.headerOffset
scrollItemBottom(index) == scrollItemTop(index) + props.itemHeight

\* an assignment to scrollTop, clamped by the container
setScrollTop(y) == Max(0, Min(y, scrollMax.y))

Aligns == {"start", "center", "end", "auto"}

\* scrollToIndex with 'auto' aligning a row below the viewport to the top
scrollToIndex_TopOnly(y, index, align, container) ==
    IF ~container THEN {y}
    ELSE IF scrollItemTop(index) < y
            \/ scrollItemBottom(index) > y + containerRect.height
    THEN {setScrollTop(scrollItemTop(index))}
    ELSE {y}

\* scrollToIndex: the values scrollTop takes; for 'center' the half pixel
\* is kept or dropped by the container
scrollToIndex(y, index, align, container) ==
    LET itemTop == scrollItemTop(index)
        itemBottom == scrollItemBottom(index)
        viewportHeight == containerRect.height
        twice == 2 * itemTop - (viewportHeight - props.itemHeight)
    IN IF ~container THEN {y}
       ELSE CASE align = "auto" ->
                   IF itemTop < y THEN {setScrollTop(itemTop)}
                   ELSE IF itemBottom > y + viewportHeight
                   THEN {setScrollTop(itemBottom - viewportHeight)}
                   ELSE {y}
              [] align = "start" -> {setScrollTop(itemTop)}
              [] align = "center" ->
                   {setScrollTop(twice \div 2),
                    setScrollTop((twice + 1) \div 2)}
              [] align = "end" -> {setScrollTop(itemBottom - viewportHeight)}

\* A marquee state is the record of useMarquee's variables and the
\* container's scroll offset.
MarqueeNow ==
    [isActive |-> isActive, rect |-> rect,
     previouslySelected |-> previouslySelected,
     scrollAnimationId |-> scrollAnimationId, frames |-> frames,
     lastPointerEvent |-> lastPointerEvent, scroll |-> scroll,
     container |-> mounted]

getMarqueeDOMRect(m) ==
    IF m.rect = NoObject \/ ~m.container THEN NoObject
    ELSE DOMRect(Min(m.rect.startX, m.rect.endX) - m.scroll.x + containerRect.left,
                 Min(m.rect.startY, m.rect.endY) - m.scroll.y + containerRect.top,
                 Max(m.rect.startX, m.rect.endX) - Min(m.rect.startX, m.rect.endX),
                 Max(m.rect.startY, m.rect.endY) - Min(m.rect.startY, m.rect.endY))

rectsIntersect(a, b) ==
    ~(a.right < b.left \/ a.left > b.right \/ a.bottom < b.top \/ a.top > b.bottom)

\* the selectRange of the adapter the component hands to useMarquee
marqueeSelectRange(s, ids) == notifySel([s EXCEPT !.sel = ids])

intersectingIds(m, rows) ==
    {getItemIdFromElement(dataEgId(At(items, i))) :
        i \in {j \in renderedIndices(rows) :
                 rectsIntersect(getMarqueeDOMRect(m), itemRect(j, m.scroll))}}

updateSelection(s, m, rows) ==
    IF getMarqueeDOMRect(m) = NoObject THEN s
    ELSE marqueeSelectRange(s, m.previouslySelected \cup intersectingIds(m, rows))

\* one axis of getScrollVelocity; the quotient is whole at the pointer
\* positions explored
axisVelocity(pointer, size) ==
    IF pointer < EDGE_THRESHOLD
    THEN 0 - ((SCROLL_SPEED * (EDGE_THRESHOLD - pointer)) \div EDGE_THRESHOLD)
    ELSE IF pointer > size - EDGE_THRESHOLD
    THEN (SCROLL_SPEED * (EDGE_THRESHOLD - (size - pointer))) \div EDGE_THRESHOLD
    ELSE 0

getScrollVelocity(e) ==
    [x |-> axisVelocity(e.x - containerRect.left, containerRect.width),
     y |-> axisVelocity(e.y - containerRect.top, containerRect.height)]

FrameIds == 1..MaxFrames

\* requestAnimationFrame(scrollLoop): a handle no pending frame has, other
\* than the one held
requestFrame(m) ==
    LET held == m.frames \cup {m.scrollAnimationId}
        id == CHOOSE h \in FrameIds \ held : \A g \in FrameIds \ held : h <= g
    IN [m EXCEPT !.scrollAnimationId = id, !.frames = @ \cup {id}]

\* startAutoScroll that requests a frame although one is held
startAutoScroll_Always(m) == requestFrame(m)

startAutoScroll(m) ==
    IF m.scrollAnimationId = Null THEN requestFrame(m) ELSE m

\* stopAutoScroll that forgets the frame without cancelling it
stopAutoScroll_KeepsFrame(m) ==
    [m EXCEPT !.scrollAnimationId = Null, !.lastPointerEvent = NoObject]

stopAutoScroll(m) ==
    [m EXCEPT !.frames = IF m.scrollAnimationId # Null
                         THEN @ \ {m.scrollAnimationId} ELSE @,
              !.scrollAnimationId = Null,
              !.lastPointerEvent = NoObject]

\* the end point follows the pointer in content coordinates
followPointer(m, e) ==
    [m EXCEPT !.rect = [@ EXCEPT
        !.endX = e.x - containerRect.left + m.scroll.x,
        !.endY = e.y - containerRect.top + m.scroll.y]]

startMarquee(m, s, e) ==
    IF ~enabled \/ ~m.container THEN m
    ELSE LET x == e.x - containerRect.left + m.scroll.x
             y == e.y - containerRect.top + m.scroll.y
         IN [m EXCEPT
                !.previouslySelected = IF e.mod THEN s.sel ELSE {},
                !.rect = [startX |-> x, startY |-> y, endX |-> x, endY |-> y],
                !.isActive = TRUE]

\* updateMarquee: the marquee state it leaves
updateMarquee(m, e) ==
    IF ~m.isActive \/ ~m.container \/ m.rect = NoObject THEN m
    ELSE LET moved == [followPointer(m, e) EXCEPT
                          !.lastPointerEvent = [x |-> e.x, y |-> e.y]]
             velocity == getScrollVelocity(e)
         IN IF velocity.x # 0 \/ velocity.y # 0
            THEN startAutoScroll(moved) ELSE moved

\* updateMarquee: the selection it leaves
updateMarqueeSelection(s, m, e, rows) ==
    IF ~m.isActive \/ ~m.container \/ m.rect = NoObject THEN s
    ELSE updateSelection(s, updateMarquee(m, e), rows)

endMarquee(m) ==
    [stopAutoScroll(m) EXCEPT
        !.isActive = FALSE, !.rect = NoObject, !.previouslySelected = {}]

\* scrollLoop goes on past its early return and scrolls
scrollLoopScrolls(m) ==
    /\ m.isActive /\ m.container /\ m.lastPointerEvent # NoObject
    /\ LET velocity == getScrollVelocity(m.lastPointerEvent)
       IN velocity.x # 0 \/ velocity.y # 0

\* scrollLoop after the scroll and the move of the end point
scrolled(m) ==
    LET to == [m EXCEPT
                  !.scroll = scrollBy(@, getScrollVelocity(m.lastPointerEvent))]
    IN IF to.rect # NoObject THEN followPointer(to, to.lastPointerEvent) ELSE to

\* scrollLoop: the marquee state it leaves
scrollLoop(m) ==
    IF ~m.isActive \/ ~m.container \/ m.lastPointerEvent = NoObject
    THEN [m EXCEPT !.scrollAnimationId = Null]
    ELSE requestFrame(IF scrollLoopScrolls(m) THEN scrolled(m) ELSE m)

\* scrollLoop: the selection it leaves
scrollLoopSelection(s, m, rows) ==
    IF scrollLoopScrolls(m) THEN updateSelection(s, scrolled(m), rows) ELSE s

ApplyMarquee(m) ==
    /\ isActive' = m.isActive
    /\ rect' = m.rect
    /\ previouslySelected' = m.previouslySelected
    /\ scrollAnimationId' = m.scrollAnimationId
    /\ frames' = m.frames
    /\ lastPointerEvent' = m.lastPointerEvent
    /\ scroll' = m.scroll
    /\ mounted' = m.container

\* pointer positions: inside column 0 or between the columns; at the top
\* edge, inside row 0 and at the bottom edge of the container
PointerXs == {containerRect.left + 56, containerRect.left + 112}
PointerYs == {containerRect.top, containerRect.top + 56,
              containerRect.top + containerRect.height}
MoveEvents == [x : PointerXs, y : PointerYs]
DownEvents == [x : PointerXs, y : PointerYs, button : {0, 2}, mod : BOOLEAN]

emptyHit(e) ==
    [hit |-> [type |-> "empty", itemId |-> Null],
     button |-> e.button, shift |-> FALSE, mod |-> e.mod]

\* hitTest finds no item element under the pointer
hitsEmpty(e) ==
    ~\E i \in 0..(Len(items) - 1) :
        LET r == itemRect(i, scroll)
        IN e.x >= r.left /\ e.x <= r.right /\ e.y >= r.top /\ e.y <= r.bottom

\* the component's onPointerDown on empty space
OnPointerDown(e) ==
    /\ hitsEmpty(e)
    /\ ApplyMarquee(IF enabled /\ e.button = 0
                    THEN startMarquee(MarqueeNow, SelNow, e) ELSE MarqueeNow)
    /\ Apply(pointerDownSelection(SelNow, emptyHit(e)),
             pointerDownFocus(SelNow, FocusNow, emptyHit(e)), NoRet, FALSE)
    /\ UNCHANGED enabled
    /\ ListUnchanged /\ OptionsUnchanged /\ TypeaheadUnchanged

\* the component's onPointerMove
OnPointerMove(e, rows) ==
    /\ isActive
    /\ ApplyMarquee(updateMarquee(MarqueeNow, e))
    /\ Apply(updateMarqueeSelection(SelNow, MarqueeNow, e, rows), FocusNow,
             NoRet, FALSE)
    /\ UNCHANGED enabled
    /\ ListUnchanged /\ OptionsUnchanged /\ TypeaheadUnchanged

\* the component's onPointerUp
OnPointerUp ==
    /\ isActive
    /\ ApplyMarquee(endMarquee(MarqueeNow))
    /\ Apply(SelNow, FocusNow, NoRet, FALSE)
    /\ UNCHANGED enabled
    /\ ListUnchanged /\ OptionsUnchanged /\ TypeaheadUnchanged

\* the platform runs the frame callback h
AnimationFrame(h, rows) ==
    /\ h \in frames
    /\ LET m == [MarqueeNow EXCEPT !.frames = @ \ {h}]
       IN /\ ApplyMarquee(scrollLoop(m))
          /\ Apply(scrollLoopSelection(SelNow, m, rows), FocusNow, NoRet, FALSE)
    /\ UNCHANGED enabled
    /\ ListUnchanged /\ OptionsUnchanged /\ TypeaheadUnchanged

\* marquee.startMarquee(e), called in any state
StartMarquee(e) ==
    /\ ApplyMarquee(startMarquee(MarqueeNow, SelNow, e))
    /\ Apply(SelNow, FocusNow, NoRet, FALSE)
    /\ UNCHANGED enabled
    /\ ListUnchanged /\ OptionsUnchanged /\ TypeaheadUnchanged

\* marquee.updateMarquee(e), called in any state
UpdateMarquee(e, rows) ==
    /\ ApplyMarquee(updateMarquee(MarqueeNow, e))
    /\ Apply(updateMarqueeSelection(SelNow, MarqueeNow, e, rows), FocusNow,
             NoRet, FALSE)
    /\ UNCHANGED enabled
    /\ ListUnchanged /\ OptionsUnchanged /\ TypeaheadUnchanged

\* marquee.endMarquee(e), called in any state
EndMarquee ==
    /\ ApplyMarquee(endMarquee(MarqueeNow))
    /\ Apply(SelNow, FocusNow, NoRet, FALSE)
    /\ UNCHANGED enabled
    /\ ListUnchanged /\ OptionsUnchanged /\ TypeaheadUnchanged

\* the marqueeEnabled computed takes a new value (a prop changed); nothing
\* in useMarquee or the component watches it
SetEnabled(b) ==
    /\ b # enabled
    /\ enabled' = b
    /\ ApplyMarquee(MarqueeNow)
    /\ Apply(SelNow, FocusNow, NoRet, FALSE)
    /\ ListUnchanged /\ OptionsUnchanged /\ TypeaheadUnchanged

\* the component is unmounted: its onUnmounted hooks disconnect the resize
\* observer and remove the scroll listener, the template ref becomes null;
\* no hook touches the marquee or the typeahead
Unmount ==
    /\ mounted
    /\ ApplyMarquee([MarqueeNow EXCEPT !.container = FALSE])
    /\ Apply(SelNow, FocusNow, NoRet, FALSE)
    /\ UNCHANGED enabled
    /\ ListUnchanged /\ OptionsUnchanged /\ TypeaheadUnchanged

\* virtual.scrollToIndex(index, align)
ScrollToIndex(index, align) ==
    /\ \E y \in scrollToIndex(scroll.y, index, align, mounted) :
          ApplyMarquee([MarqueeNow EXCEPT !.scroll.y = y])
    /\ Apply(SelNow, FocusNow, NoRet, FALSE)
    /\ UNCHANGED enabled
    /\ ListUnchanged /\ OptionsUnchanged /\ TypeaheadUnchanged

\* the user scrolls the container (wheel, scroll bar)
UserScroll(y) ==
    /\ mounted
    /\ ApplyMarquee([MarqueeNow EXCEPT !.scroll.y = setScrollTop(y)])
    /\ Apply(SelNow, FocusNow, NoRet, FALSE)
    /\ UNCHANGED enabled
    /\ ListUnchanged /\ OptionsUnchanged /\ TypeaheadUnchanged

\* --------------------------------------------- initial states by layer
\* no key typed, no drag started
InitGestures ==
    /\ currentBuffer = << >> /\ timeoutId = Null /\ timers = {}
    /\ enabled = (mode = "multiple")
    /\ isActive = FALSE /\ rect = NoObject /\ previouslySelected = {}
    /\ scrollAnimationId = Null /\ frames = {}
    /\ lastPointerEvent = NoObject
    /\ scroll = [x |-> 0, y |-> 0]
    /\ mounted = TRUE

InitObserved ==
    /\ selNotes = 0 /\ selArg = {} /\ focusNotes = 0
    /\ ret = NoRet /\ err = FALSE
    /\ focusedIdModel = Null /\ focusSyncPending = FALSE

InitEngines ==
    /\ selectedIds = {} /\ anchorId = Null /\ focusedId = Null
    /\ InitObserved
    /\ InitGestures

InitDefaults ==
    /\ selectOnFocus = TRUE
    /\ clearSelectionOnEmptyClick = TRUE
    /\ rightClickSelect = TRUE

\* useSelection alone: no list is involved
InitSel ==
    /\ items = << >> /\ oldItems = << >> /\ pending = FALSE
    /\ idToIndexMap = rebuildIdIndexMap(<< >>)
    /\ mode \in Modes
    /\ columnCount = 1
    /\ InitDefaults
    /\ InitEngines

NextSel ==
    \/ \E id \in KeyIds : Select(id)
    \/ \E id \in KeyIds : Deselect(id)
    \/ \E id \in KeyIds : Toggle(id)
    \/ \E id \in KeyIds : SelectOnly(id)
    \/ \E ids \in SeqsUpTo(KeyIds, MaxArgLen) : SelectMultiple(ids)
    \/ \E ids \in SeqsUpTo(KeyIds, MaxArgLen) : SelectRange(ids)
    \/ \E ids \in SeqsUpTo(KeyIds, MaxArgLen) : SelectAll(ids)
    \/ Clear
    \/ \E id \in KeyIds \cup {Null} : SetAnchor(id)

SpecSel == InitSel /\ [][NextSel]_vars

\* useFocus over a list that stays the same
InitFocus ==
    /\ items \in FixedLists /\ oldItems = items /\ pending = FALSE
    /\ idToIndexMap = rebuildIdIndexMap(items)
    /\ mode = "multiple"
    /\ columnCount \in 1..MaxCols
    /\ InitDefaults
    /\ InitEngines

NextFocus ==
    \/ \E id \in FixedIds : SetFocusById(id)
    \/ \E index \in (0 - 1)..(MaxFixedLen + 1) : SetFocusByIndex(index)
    \/ ClearFocus
    \/ \E d \in Directions : \E vr \in RowsFor(d) : MoveFocus(d, vr)

SpecFocus == InitFocus /\ [][NextFocus]_vars

\* useKeyboard with useFocus and useSelection over a list that stays the same
InitKeys ==
    /\ items \in KeyLists /\ oldItems = items /\ pending = FALSE
    /\ idToIndexMap = rebuildIdIndexMap(items)
    /\ mode \in Modes
    /\ columnCount \in 1..MaxCols
    /\ selectOnFocus \in BOOLEAN
    /\ clearSelectionOnEmptyClick = TRUE
    /\ rightClickSelect = TRUE
    /\ InitEngines

NextKeys ==
    \/ \E e \in KeyEvents : \E vr \in KeyRowsFor(e) : KeyboardHandleKeydown(e, vr)
    \/ \E d \in Directions : \E vr \in RowsFor(d) : MoveFocus(d, vr)
    \/ \E id \in KeyIds : SetFocusById(id)
    \/ \E id \in KeyIds : GridSelectOnly(id)
    \/ \E id \in KeyIds : GridToggle(id)

SpecKeys == InitKeys /\ [][NextKeys]_vars

\* useExplorerGrid's pointer handler and selection helpers over a list that
\* stays the same
InitPointer ==
    /\ items \in KeyLists /\ oldItems = items /\ pending = FALSE
    /\ idToIndexMap = rebuildIdIndexMap(items)
    /\ mode \in Modes
    /\ columnCount = 1
    /\ selectOnFocus = TRUE
    /\ clearSelectionOnEmptyClick \in BOOLEAN
    /\ rightClickSelect \in BOOLEAN
    /\ InitEngines

NextPointer ==
    \/ \E e \in PointerEvents(KeyIds) : HandlePointerDown(e)
    \/ \E a, b \in KeyIds : GridSelectRange(a, b)
    \/ \E id \in KeyIds : GridToggle(id)
    \/ \E id \in KeyIds : GridSelectOnly(id)
    \/ GridSelectAll
    \/ GridClearSelection
    \/ \E id \in KeyIds : SetFocusById(id)

SpecPointer == InitPointer /\ [][NextPointer]_vars

\* useExplorerGrid's reconciliation of replaced lists, with the focus and
\* the selection set through the grid
InitReconcile ==
    /\ items \in ChurnLists /\ oldItems = items /\ pending = FALSE
    /\ idToIndexMap = rebuildIdIndexMap(items)
    /\ mode = "multiple"
    /\ columnCount = 1
    /\ InitDefaults
    /\ InitEngines

NextReconcile ==
    \/ \E list \in ChurnLists : ReplaceItems(list)
    \/ FlushItemsWatch
    \/ \E id \in ChurnIds : SetFocusById(id)
    \/ \E id \in ChurnIds : GridSelectOnly(id)
    \/ \E id \in ChurnIds : GridToggle(id)

SpecReconcile == InitReconcile /\ [][NextReconcile]_vars

\* useTypeahead behind useExplorerGrid.handleKeydown over a list that stays
\* the same
InitTypeahead ==
    /\ items \in KeyLists /\ oldItems = items /\ pending = FALSE
    /\ idToIndexMap = rebuildIdIndexMap(items)
    /\ mode = "multiple"
    /\ columnCount = 1
    /\ InitDefaults
    /\ InitEngines

NextTypeahead ==
    \/ \E e \in TypeEvents : GridHandleKeydown(e, MaxVisibleRows)
    \/ \E e \in TypeEvents : TypeaheadHandleKeypress(e)
    \/ TypeaheadClearBuffer
    \/ \E h \in TimerIds : TimerExpires(h)

SpecTypeahead == InitTypeahead /\ [][NextTypeahead]_vars

\* useTypeahead alone: keystrokes and the expiry of its timers
NextTypeaheadLive ==
    \/ \E e \in TypeEvents : TypeaheadHandleKeypress(e)
    \/ \E h \in TimerIds : TimerExpires(h)

\* a timer that stays pending expires after its delay
TimerFairness == \A h \in TimerIds : WF_vars(TimerExpires(h))

SpecTypeaheadLive ==
    InitTypeahead /\ [][NextTypeaheadLive]_vars /\ TimerFairness

\* the component's marquee over a list that stays the same
InitMarquee ==
    /\ items \in MarqueeLists /\ oldItems = items /\ pending = FALSE
    /\ idToIndexMap = rebuildIdIndexMap(items)
    /\ mode = "multiple"
    /\ columnCount = gridColumnCount
    /\ InitDefaults
    /\ InitEngines

NextMarquee ==
    \/ \E e \in DownEvents : OnPointerDown(e)
    \/ \E e \in MoveEvents : \E rows \in RowWindows : OnPointerMove(e, rows)
    \/ OnPointerUp
    \/ \E h \in FrameIds : \E rows \in RowWindows : AnimationFrame(h, rows)

SpecMarquee == InitMarquee /\ [][NextMarquee]_vars

\* useMarquee called in any order, with the enabled flag changing
NextMarqueeApi ==
    \/ \E e \in {d \in DownEvents : d.button = 0} : StartMarquee(e)
    \/ \E e \in MoveEvents : \E rows \in RowWindows : UpdateMarquee(e, rows)
    \/ EndMarquee
    \/ \E h \in FrameIds : \E rows \in RowWindows : AnimationFrame(h, rows)
    \/ \E b \in BOOLEAN : SetEnabled(b)

SpecMarqueeApi == InitMarquee /\ [][NextMarqueeApi]_vars

\* the mounted component under one drag towards the bottom edge and the
\* key "a", then unmounted; timers and frames outlive the DOM events
TeardownDown ==
    {e \in DownEvents : e.button = 0 /\ ~e.mod /\ e.y = containerRect.top}
TeardownMove ==
    {e \in MoveEvents : e.y = containerRect.top + containerRect.height}
TeardownKeys ==
    {e \in TypeEvents : e.key = "a" /\ ~e.shift /\ ~e.mod /\ ~e.alt}

NextTeardown ==
    \/ mounted /\ \E e \in TeardownDown : OnPointerDown(e)
    \/ mounted /\ \E e \in TeardownMove : OnPointerMove(e, 0..(rowCount - 1))
    \/ mounted /\ OnPointerUp
    \/ mounted /\ \E e \in TeardownKeys : GridHandleKeydown(e, MaxVisibleRows)
    \/ \E h \in FrameIds : AnimationFrame(h, 0..(rowCount - 1))
    \/ \E h \in TimerIds : TimerExpires(h)
    \/ Unmount

SpecTeardown == InitMarquee /\ [][NextTeardown]_vars

\* a run of Shift+navigation presses on a grid whose focus was set by
\* focusById and whose anchor was never set
ShiftNavigationKeys == {e \in KeyEvents : e.key \in NavigationKeys /\ e.shift}

NextShiftRun ==
    \/ selectedIds = {} /\ \E id \in FixedIds : SetFocusById(id)
    \/ focusedId # Null /\ \E e \in ShiftNavigationKeys :
          \E vr \in KeyRowsFor(e) : KeyboardHandleKeydown(e, vr)

SpecShiftRun == InitFocus /\ [][NextShiftRun]_vars

\* useVirtualGrid.scrollToIndex over a list that stays the same, between
\* scrolls of the user
ScrollTops == {0, 50, 100, 150, 250, 400}

NextScroll ==
    \/ \E index \in 0..(MaxFixedLen - 1) : \E align \in Aligns :
          ScrollToIndex(index, align)
    \/ \E y \in ScrollTops : UserScroll(y)

SpecScroll == InitFocus /\ [][NextScroll]_vars

\* updateMarquee with pointer positions that also lie outside the container
\* (a touch pointer stays captured by the element it went down on):
\* positions just outside, near the edges, and in the middle
EdgeXs == {containerRect.left - 8, containerRect.left + 56,
           containerRect.left + containerRect.width + 8}
EdgeYs == {containerRect.top - 8, containerRect.top + 16,
           containerRect.top + 56,
           containerRect.top + containerRect.height - 16,
           containerRect.top + containerRect.height + 8}
EdgeEvents == [x : EdgeXs, y : EdgeYs]

NextAutoScroll ==
    \/ \E e \in {d \in DownEvents : d.button = 0 /\ ~d.mod} : StartMarquee(e)
    \/ \E e \in EdgeEvents : UpdateMarquee(e, 0..(rowCount - 1))
    \/ EndMarquee
    \/ \E h \in FrameIds : AnimationFrame(h, 0..(rowCount - 1))

SpecAutoScroll == InitMarquee /\ [][NextAutoScroll]_vars

\* the component's focusedId v-model over a list that stays the same: the
\* parent writes the model, the watcher runs, the focus moves internally
NextFocusModel ==
    \/ \E v \in FixedIds \cup {Null} : AssignFocusedId(v)
    \/ FlushFocusWatch
    \/ \E id \in FixedIds : SetFocusById(id)
    \/ ClearFocus
    \/ \E d \in {"left", "right"} : MoveFocus(d, MaxVisibleRows)

SpecFocusModel == InitFocus /\ [][NextFocusModel]_vars

\* the grid with its component: the list is replaced and reconciled
Init ==
    /\ items \in Lists /\ oldItems = items /\ pending = FALSE
    /\ idToIndexMap = rebuildIdIndexMap(items)
    /\ mode \in Modes
    /\ columnCount = MaxCols
    /\ InitDefaults
    /\ InitEngines

\* key events useExplorerGrid.handleKeydown passes to useKeyboard
GridKeyEvents == {e \in KeyEvents : e.key # "a" \/ e.mod}

Next ==
    \/ \E list \in Lists : ReplaceItems(list)
    \/ FlushItemsWatch
    \/ \E id \in Ids : GridToggle(id)
    \/ \E id \in Ids : GridSelectOnly(id)
    \/ \E a, b \in Ids : GridSelectRange(a, b)
    \/ GridSelectAll
    \/ GridClearSelection
    \/ \E id \in Ids : SetFocusById(id)
    \/ \E index \in (0 - 1)..MaxLen : SetFocusByIndex(index)
    \/ \E d \in Directions : \E vr \in RowsFor(d) : MoveFocus(d, vr)
    \/ \E e \in GridKeyEvents : \E vr \in KeyRowsFor(e) : KeyboardHandleKeydown(e, vr)
    \/ \E e \in PointerEvents(Ids) : HandlePointerDown(e)
    \/ \E S \in SUBSET Ids : SyncSelectedIds(S)

Spec == Init /\ [][Next]_vars
\* ================================================================ claims
\* the selected set respects the selection mode
ModeGated ==
    /\ mode = "none" => selectedIds = {}
    /\ mode = "single" => Cardinality(selectedIds) <= 1

\* C1: under every sequence of SelectionEngine calls the selected set is
\* empty in mode 'none' and holds at most one id in mode 'single'.
C1_SelectionModeInvariant == ModeGated

C1_Witness ==
    /\ mode = "single"
    /\ Cardinality(selectedIds) = 1
    /\ selNotes = 1
    /\ anchorId # Null

\* the ids of the current list
ItemIds == Range(items)

Consistent ==
    /\ selectedIds \subseteq ItemIds
    /\ focusedId = Null \/ focusedId \in ItemIds

\* C2: once the reconciliation of a replacement has run, the selected set is
\* the previously selected ids that are in the new list, in every mode.
C2_Original ==
    [][FlushItemsWatch => selectedIds' = selectedIds \cap ItemIds']_vars

\* C3: with no reconciliation pending, the focused id is null or the id of
\* an item of the current list.
C3_Original ==
    ~pending => (focusedId = Null \/ focusedId \in ItemIds)

\* C4: replacement and reconciliation are one step: right after the list is
\* replaced, a selection and focus that were inside the old list are inside
\* the new one.
C4_Original ==
    [][((\E list \in Lists : ReplaceItems(list)) /\ Consistent)
          => Consistent']_vars

\* C5: getIndexById(id) is the position of id in the current list, -1 when
\* absent, so getIdByIndex(getIndexById(id)) = id for every present id.
C5_Original ==
    \A id \in Ids :
        /\ getIndexById(id) = findIndex(items, id)
        /\ id \in ItemIds => getIdByIndex(getIndexById(id)) = id

\* C6: every change of the selected set is made by a SelectionEngine
\* operation: it leaves a mode-gated set and is reported by onSelectionChange.
C6_Original ==
    [][selectedIds' # selectedIds => (selNotes' >= 1 /\ ModeGated')]_vars

\* C7: grid.selectOnly, grid.toggle and a pointer-down on an item whose id is
\* not in the list leave the selected set and the anchor unchanged.
C7_Original ==
    [][\A id \in Ids \ ItemIds :
          (\/ GridSelectOnly(id)
           \/ GridToggle(id)
           \/ \E e \in PointerEvents({id}) :
                 e.hit.type = "item" /\ HandlePointerDown(e))
          => UNCHANGED <<selectedIds, anchorId>>]_vars

\* C8: setFocusById of an absent id and setFocusByIndex of an index outside
\* the list change nothing and notify nobody; with a present id or an index
\* inside the list they focus that item and notify once; clearFocus always
\* sets null and notifies once.
C8_FocusSetters ==
    [][/\ \A id \in FixedIds :
            SetFocusById(id) =>
                IF id \in ItemIds
                THEN focusedId' = id /\ focusNotes' = 1
                ELSE focusedId' = focusedId /\ focusNotes' = 0
       /\ \A index \in (0 - 1)..(MaxFixedLen + 1) :
            SetFocusByIndex(index) =>
                IF 0 <= index /\ index < Len(items)
                THEN focusedId' = items[index + 1] /\ focusNotes' = 1
                ELSE focusedId' = focusedId /\ focusNotes' = 0
       /\ ClearFocus => (focusedId' = Null /\ focusNotes' = 1)]_vars

\* a rejected setFocusById or setFocusByIndex while an item is focused
C8_Witness ==
    /\ focusedId # Null
    /\ focusNotes = 0
    /\ ret = NoRet
    /\ Len(items) >= 2

\* the target table of the specification
C9_Table(i, d, cols, n, visibleRows) ==
    IF i < 0 THEN 0
    ELSE CASE d = "left" -> Max(0, i - 1)
           [] d = "right" -> Min(n - 1, i + 1)
           [] d = "up" -> Max(0, i - cols)
           [] d = "down" -> Min(n - 1, i + cols)
           [] d = "home" -> i - (i % cols)
           [] d = "end" -> Min(n - 1, i - (i % cols) + cols - 1)
           [] d = "home-global" -> 0
           [] d = "end-global" -> n - 1
           [] d = "pageUp" -> Max(0, i - cols * visibleRows)
           [] d = "pageDown" -> Min(n - 1, i + cols * visibleRows)

\* C9: on a non-empty list moveFocus returns the target of the table, the
\* result lies in [0, n-1] and afterwards focusedIndex is the returned index.
C9_MoveFocusTable ==
    [][\A d \in Directions : \A vr \in RowsFor(d) :
          (MoveFocus(d, vr) /\ Len(items) >= 1) =>
              /\ ret' = C9_Table(focusedIndex, d, columnCount, Len(items), vr)
              /\ 0 <= ret' /\ ret' <= Len(items) - 1
              /\ focusedIndex' = ret']_vars

\* a move that saturated at the last item of a list with several rows
C9_Witness ==
    /\ Len(items) >= 4
    /\ ret = Len(items) - 1
    /\ focusedIndex = ret
    /\ focusNotes = 0

\* C10: with an empty list moveFocus returns -1, keeps focusedId and does
\* not notify; a navigation key changes neither the selected set nor the
\* anchor and raises no error.
C10_EmptyList ==
    [][Len(items) = 0 =>
          /\ \A d \in Directions : \A vr \in RowsFor(d) :
                MoveFocus(d, vr) =>
                    /\ ret' = 0 - 1
                    /\ focusedId' = focusedId
                    /\ focusNotes' = 0
          /\ \A e \in KeyEvents : \A vr \in KeyRowsFor(e) :
                (e.key \in NavigationKeys /\ KeyboardHandleKeydown(e, vr)) =>
                    /\ UNCHANGED <<selectedIds, anchorId, focusedId>>
                    /\ selNotes' = 0 /\ focusNotes' = 0
                    /\ ~err']_vars

\* moveFocus returned -1 on an empty list while ids are selected and the
\* anchor is set
C10_Witness ==
    /\ Len(items) = 0
    /\ ret = 0 - 1
    /\ selectedIds # {}
    /\ anchorId # Null

\* the ids at the indices between a and b, whichever is smaller
IdsBetween(a, b) == {At(items, i) : i \in Min(a, b)..Max(a, b)}

\* C11: in mode 'multiple', on a non-empty list with the anchor on a listed
\* id, every Shift+navigation key press leaves exactly the ids between the
\* anchor's index and the focused index selected, and keeps the anchor.
C11_ShiftNavigationExtends ==
    (mode = "multiple" /\ Len(items) >= 1 /\ anchorId \in ItemIds) =>
        \A e \in KeyEvents : \A vr \in KeyRowsFor(e) :
            (e.key \in NavigationKeys /\ e.shift) =>
                LET s == keydownSelection(SelNow, FocusNow, e, vr)
                    f == keydownFocus(FocusNow, e, vr)
                IN /\ ~keydownThrows(SelNow, FocusNow, e, vr)
                   /\ focusedIndexOf(f) >= 0
                   /\ s.sel = IdsBetween(findIndex(items, anchorId),
                                         focusedIndexOf(f))
                   /\ s.anchor = anchorId

\* a Shift+navigation that left the focus before the anchor with the items
\* between them selected
C11_Witness ==
    /\ mode = "multiple"
    /\ selNotes = 1 /\ focusNotes = 1
    /\ anchorId \in ItemIds
    /\ focusedIndex >= 0
    /\ focusedIndex + 2 <= findIndex(items, anchorId)
    /\ selectedIds = IdsBetween(findIndex(items, anchorId), focusedIndex)

\* the direction of a navigation key pressed with Ctrl or Cmd
C12_Direction(key) ==
    CASE key = "ArrowUp" -> "up"
      [] key = "ArrowDown" -> "down"
      [] key = "ArrowLeft" -> "left"
      [] key = "ArrowRight" -> "right"
      [] key = "Home" -> "home-global"
      [] key = "End" -> "end-global"
      [] key = "PageUp" -> "pageUp"
      [] key = "PageDown" -> "pageDown"

\* C12: a navigation key with Ctrl or Cmd and without Shift moves the focus
\* to the moveFocus target (Home and End over the whole list) and leaves the
\* selected set and the anchor alone without notifying, in every mode and
\* for both values of selectOnFocus.
C12_ModNavigationMovesOnly ==
    \A e \in KeyEvents : \A vr \in KeyRowsFor(e) :
        (e.key \in NavigationKeys /\ e.mod /\ ~e.shift) =>
            LET s == keydownSelection(SelNow, FocusNow, e, vr)
                f == keydownFocus(FocusNow, e, vr)
            IN /\ s.sel = selectedIds /\ s.anchor = anchorId
               /\ s.notes = 0
               /\ ~keydownThrows(SelNow, FocusNow, e, vr)
               /\ Len(items) >= 1 =>
                     focusedIndexOf(f) =
                        C9_Table(focusedIndex, C12_Direction(e.key),
                                 columnCount, Len(items), vr)

\* the focus moved off the selected, anchored item although selectOnFocus
\* is enabled
C12_Witness ==
    /\ selectOnFocus /\ mode = "single"
    /\ focusNotes = 1 /\ selNotes = 0 /\ ret = NoRet
    /\ Cardinality(selectedIds) = 1
    /\ anchorId \in selectedIds
    /\ focusedId \in ItemIds \ selectedIds
    /\ focusedIndex = Len(items) - 1
    /\ Len(items) > columnCount

\* C13: a navigation key without Shift, Ctrl or Cmd on a non-empty list in
\* mode 'single' or 'multiple' leaves exactly the focused id selected and
\* anchored when selectOnFocus is enabled (also when the focus stays at a
\* boundary), and leaves the selected set and the anchor alone otherwise.
C13_PlainNavigation ==
    (mode # "none" /\ Len(items) >= 1) =>
        \A e \in KeyEvents : \A vr \in KeyRowsFor(e) :
            (e.key \in NavigationKeys /\ ~e.shift /\ ~e.mod) =>
                LET s == keydownSelection(SelNow, FocusNow, e, vr)
                    f == keydownFocus(FocusNow, e, vr)
                IN IF selectOnFocus
                   THEN /\ f.fid # Null
                        /\ s.sel = {f.fid}
                        /\ s.anchor = f.fid
                   ELSE /\ s.sel = selectedIds /\ s.anchor = anchorId
                        /\ s.notes = 0

\* a plain navigation at a boundary: the focus stayed, the selection was
\* replaced by the focused item
C13_Witness ==
    /\ selectOnFocus /\ mode = "multiple"
    /\ focusNotes = 0 /\ selNotes = 1
    /\ focusedId # Null
    /\ selectedIds = {focusedId} /\ anchorId = focusedId
    /\ focusedIndex = Len(items) - 1
    /\ Len(items) >= 2

\* C14: in mode 'multiple', grid.selectRange(a, b) with both ids in the list
\* selects exactly the ids between their indices, the same set for (b, a);
\* with an id that is not in the list it changes nothing.
C14_Original ==
    mode = "multiple" =>
        \A a, b \in Ids :
            LET s == gridSelectRange(SelNow, a, b) IN
            /\ ~gridSelectRangeThrows(a, b)
            /\ IF a \in ItemIds /\ b \in ItemIds
               THEN /\ s.sel = IdsBetween(findIndex(items, a), findIndex(items, b))
                    /\ s.sel = gridSelectRange(SelNow, b, a).sel
               ELSE s.sel = selectedIds /\ s.notes = 0

\* C15: in mode 'single' or 'multiple' a selectOnly(x) leaves {x} selected,
\* keeps the anchor and notifies once; a second selectOnly(x) right after
\* it leaves the same selected set and anchor.
C15_SelectOnlyIdempotent ==
    [][\A id \in KeyIds :
          (mode # "none" /\ SelectOnly(id)) =>
              /\ selectedIds' = {id}
              /\ anchorId' = anchorId
              /\ selNotes' = 1 /\ selArg' = {id}
              /\ selectOnly(selectOnly(SelNow, id), id).sel = selectedIds'
              /\ selectOnly(selectOnly(SelNow, id), id).anchor = anchorId']_vars

\* a selectOnly that left one id selected beside an anchor set before
C15_Witness ==
    /\ mode # "none"
    /\ Cardinality(selectedIds) = 1
    /\ selNotes = 1 /\ selArg = selectedIds
    /\ anchorId # Null /\ anchorId \notin selectedIds

\* C16: a SelectionEngine call that changes the selected set notifies
\* exactly once, with the resulting set; deselect of an id that is not
\* selected and clear on the empty set do not notify.
C16_OneNotificationPerCall ==
    [][/\ selectedIds' # selectedIds =>
             (selNotes' = 1 /\ selArg' = selectedIds')
       /\ \A id \in KeyIds :
             (id \notin selectedIds /\ Deselect(id)) => selNotes' = 0
       /\ (selectedIds = {} /\ Clear) => selNotes' = 0]_vars

\* one call selected several ids and notified once
C16_Witness ==
    /\ mode = "multiple"
    /\ Cardinality(selectedIds) >= 2
    /\ selNotes = 1
    /\ selArg = selectedIds

\* C17: toggle(id) in mode 'multiple' flips the membership of id, keeps the
\* membership of every other id and undoes itself when applied twice; in
\* mode 'single' it leaves {id} when id was not selected and the empty set
\* when id was the selected one.
C17_ToggleFlipsOne ==
    [][\A id \in KeyIds :
          Toggle(id) =>
              /\ mode = "multiple" =>
                    /\ (id \in selectedIds') <=> (id \notin selectedIds)
                    /\ selectedIds' \ {id} = selectedIds \ {id}
                    /\ toggle(toggle(SelNow, id), id).sel = selectedIds
              /\ mode = "single" =>
                    IF id \in selectedIds THEN selectedIds' = {}
                    ELSE selectedIds' = {id}]_vars

\* in mode 'single' the selected id was toggled off
C17_Witness ==
    /\ mode = "single"
    /\ selectedIds = {}
    /\ selNotes = 1 /\ selArg = {}

\* the Ctrl/Cmd+A key presses
SelectAllKeys == {e \in KeyEvents : e.key = "a" /\ e.mod}

\* C18: grid.selectAll() and Ctrl/Cmd+A leave exactly the ids of the current
\* list selected in mode 'multiple'; in mode 'single' or 'none' they leave
\* the selected set alone and do not notify.
C18_SelectAll ==
    [][(\/ GridSelectAll
        \/ \E e \in SelectAllKeys : KeyboardHandleKeydown(e, MaxVisibleRows)) =>
            IF mode = "multiple"
            THEN selectedIds' = ItemIds
            ELSE selectedIds' = selectedIds /\ selNotes' = 0]_vars

\* every item of a list of two was selected by one call before the list's
\* reconciliation ran
C18_Witness ==
    /\ mode = "multiple"
    /\ pending /\ oldItems = << >>
    /\ Len(items) = 2
    /\ selectedIds = ItemIds
    /\ selNotes = 1 /\ selArg = ItemIds

\* a left click on a listed item
LeftClick(id, shift, mod) ==
    [hit |-> [type |-> "item", itemId |-> id], button |-> 0,
     shift |-> shift, mod |-> mod]

\* C19: in mode 'multiple' on an unchanged list a plain left click on an
\* item selects and anchors it, and every Shift+click that follows leaves
\* exactly the ids between the anchor's index and the clicked item's index
\* selected, keeps the anchor and focuses the clicked item.
C19_ShiftClickRange ==
    (mode = "multiple" /\ ~pending) =>
        \A id \in ItemIds :
            /\ LET e == LeftClick(id, FALSE, FALSE) IN
                  /\ pointerDownSelection(SelNow, e).sel = {id}
                  /\ pointerDownSelection(SelNow, e).anchor = id
                  /\ pointerDownFocus(SelNow, FocusNow, e).fid = id
            /\ anchorId \in ItemIds =>
                  \A mod \in BOOLEAN :
                      LET e == LeftClick(id, TRUE, mod) IN
                      /\ ~pointerDownThrows(SelNow, e)
                      /\ pointerDownSelection(SelNow, e).sel =
                            IdsBetween(findIndex(items, anchorId),
                                       findIndex(items, id))
                      /\ pointerDownSelection(SelNow, e).anchor = anchorId
                      /\ pointerDownFocus(SelNow, FocusNow, e).fid = id

\* a Shift+click before the anchor selected the items from the clicked one
\* to the anchor
C19_Witness ==
    /\ mode = "multiple"
    /\ selNotes = 1 /\ focusNotes = 1
    /\ anchorId \in ItemIds
    /\ focusedIndex >= 0
    /\ focusedIndex + 2 <= findIndex(items, anchorId)
    /\ selectedIds = IdsBetween(findIndex(items, anchorId), focusedIndex)
    /\ Cardinality(selectedIds) = Len(items)

\* C20: in mode 'multiple' a left click with Ctrl or Cmd and without Shift
\* on a listed item flips that item's membership, keeps the membership of
\* every other id, and anchors and focuses the item.
C20_CtrlClickToggles ==
    mode = "multiple" =>
        \A id \in ItemIds :
            LET e == LeftClick(id, FALSE, TRUE) IN
            /\ pointerDownSelection(SelNow, e).sel =
                  IF id \in selectedIds THEN selectedIds \ {id}
                  ELSE selectedIds \cup {id}
            /\ pointerDownSelection(SelNow, e).anchor = id
            /\ pointerDownFocus(SelNow, FocusNow, e).fid = id

\* a Ctrl/Cmd+click took the clicked item out of a selection of several
C20_Witness ==
    /\ mode = "multiple"
    /\ selNotes = 1 /\ focusNotes = 1
    /\ focusedId # Null /\ anchorId = focusedId
    /\ focusedId \notin selectedIds
    /\ Cardinality(selectedIds) >= 2

\* C21: in mode 'single' or 'multiple' a left click without modifier keys on
\* a listed item leaves exactly that item selected, anchored and focused,
\* whatever the state before the click.
C21_PlainClick ==
    mode # "none" =>
        \A id \in ItemIds :
            LET e == LeftClick(id, FALSE, FALSE) IN
            /\ pointerDownSelection(SelNow, e).sel = {id}
            /\ pointerDownSelection(SelNow, e).anchor = id
            /\ pointerDownFocus(SelNow, FocusNow, e).fid = id

\* a click on the only selected item of mode 'single' reported the
\* selection and the focus once each
C21_Witness ==
    /\ mode = "single" /\ ~rightClickSelect
    /\ selNotes = 1 /\ focusNotes = 1
    /\ focusedId \in ItemIds
    /\ selectedIds = {focusedId} /\ anchorId = focusedId

\* a right click on a listed item
RightClick(id, shift, mod) ==
    [hit |-> [type |-> "item", itemId |-> id], button |-> 2,
     shift |-> shift, mod |-> mod]

\* C22 as stated: a right click on a listed item selects and anchors it
\* when rightClickSelect is enabled and it is not selected, leaves the
\* selected set and the anchor alone otherwise, and always focuses it.
C22_Original ==
    \A id \in ItemIds : \A shift, mod \in BOOLEAN :
        LET e == RightClick(id, shift, mod) IN
        /\ IF rightClickSelect /\ id \notin selectedIds
           THEN /\ pointerDownSelection(SelNow, e).sel = {id}
                /\ pointerDownSelection(SelNow, e).anchor = id
           ELSE /\ pointerDownSelection(SelNow, e).sel = selectedIds
                /\ pointerDownSelection(SelNow, e).anchor = anchorId
        /\ pointerDownFocus(SelNow, FocusNow, e).fid = id

\* C22: a right click on a listed item always focuses it; when
\* rightClickSelect is enabled and the item is not selected it anchors the
\* item and, in mode 'single' or 'multiple', leaves exactly it selected (in
\* mode 'none' the selected set stays as it is); otherwise the selected set
\* and the anchor are unchanged.
C22_RightClick ==
    \A id \in ItemIds : \A shift, mod \in BOOLEAN :
        LET e == RightClick(id, shift, mod) IN
        /\ IF rightClickSelect /\ id \notin selectedIds
           THEN /\ pointerDownSelection(SelNow, e).sel =
                     IF mode = "none" THEN selectedIds ELSE {id}
                /\ pointerDownSelection(SelNow, e).anchor = id
           ELSE /\ pointerDownSelection(SelNow, e).sel = selectedIds
                /\ pointerDownSelection(SelNow, e).anchor = anchorId
                /\ pointerDownSelection(SelNow, e).notes = 0
        /\ pointerDownFocus(SelNow, FocusNow, e).fid = id

\* a selection of several items survived with its anchor while the focus
\* moved onto one of them
C22_Witness ==
    /\ mode = "multiple" /\ rightClickSelect
    /\ Cardinality(selectedIds) >= 2
    /\ selNotes = 0 /\ focusNotes = 1
    /\ focusedId \in selectedIds
    /\ anchorId \in selectedIds \ {focusedId}

\* the pointer-down events that hit empty space
EmptyHits == {e \in PointerEvents({}) : e.hit.type = "empty"}

\* C23: a pointer-down on empty space never changes the focus or the
\* anchor; it empties the selected set when clearSelectionOnEmptyClick is
\* enabled and none of Ctrl, Cmd, Shift is held, and leaves it alone
\* otherwise.
C23_EmptyClick ==
    \A e \in EmptyHits :
        /\ pointerDownFocus(SelNow, FocusNow, e) = FocusNow
        /\ pointerDownSelection(SelNow, e).anchor = anchorId
        /\ pointerDownSelection(SelNow, e).sel =
              IF clearSelectionOnEmptyClick /\ ~e.mod /\ ~e.shift
              THEN {} ELSE selectedIds

\* the selection was emptied while an anchor and a focus stayed
C23_Witness ==
    /\ clearSelectionOnEmptyClick
    /\ selectedIds = {} /\ selNotes = 1 /\ selArg = {}
    /\ focusNotes = 0
    /\ anchorId # Null /\ focusedId # Null

\* C24: when the reconciliation of a replaced list runs and the focused id,
\* at index k of the old list, is not in the new list of length m, the focus
\* goes to the item at index min(k, m-1) of the new list, or to null when
\* m = 0; a focused id that is still in the new list stays focused and
\* nothing is notified.
C24_FocusReconciliation ==
    [][FlushItemsWatch =>
          /\ (/\ focusedId # Null
              /\ focusedId \in Range(oldItems)
              /\ focusedId \notin ItemIds) =>
                  focusedId' =
                      IF Len(items) > 0
                      THEN At(items, Min(findIndex(oldItems, focusedId),
                                         Len(items) - 1))
                      ELSE Null
          /\ focusedId \in ItemIds =>
                  (focusedId' = focusedId /\ focusNotes' = 0)]_vars

\* the reconciliation cleared the focus because the new list is empty
C24_Witness ==
    /\ ~pending
    /\ Len(items) = 0
    /\ focusedId = Null /\ focusNotes = 1

\* C25: no SelectionEngine mutation of the set and no reconciliation of a
\* replaced list changes the anchor, also when the anchor's item left the
\* list; setAnchor sets the anchor, keeps the selected set and does not
\* notify.
C25_AnchorIndependent ==
    /\ \A pruned \in Enumerations(selectedIds \cap ItemIds) :
          reconcileSelection(SelNow, pruned).anchor = anchorId
    /\ \A id \in ChurnIds :
          /\ select(SelNow, id).anchor = anchorId
          /\ deselect(SelNow, id).anchor = anchorId
          /\ toggle(SelNow, id).anchor = anchorId
          /\ selectOnly(SelNow, id).anchor = anchorId
    /\ \A ids \in SeqsUpTo(ChurnIds, MaxArgLen) :
          /\ selectMultiple(SelNow, ids).anchor = anchorId
          /\ selectRange(SelNow, ids).anchor = anchorId
          /\ selectAll(SelNow, ids).anchor = anchorId
    /\ clear(SelNow).anchor = anchorId
    /\ \A id \in ChurnIds \cup {Null} :
          /\ setAnchor(SelNow, id).anchor = id
          /\ setAnchor(SelNow, id).sel = selectedIds
          /\ setAnchor(SelNow, id).notes = 0

\* the reconciliation pruned the selection and left the anchor on an id
\* that is no longer in the list
C25_Witness ==
    /\ ~pending
    /\ anchorId # Null /\ anchorId \notin ItemIds
    /\ Len(items) >= 1
    /\ selNotes = 1 /\ selectedIds \subseteq ItemIds
    /\ focusedId \in ItemIds /\ focusNotes = 1

\* the key events useTypeahead takes into its buffer
AcceptedKeys == {e \in TypeEvents : e.key \in Chars /\ ~e.mod /\ ~e.alt}

\* the other key events: Space, modified keys, named keys
RejectedKeys == TypeEvents \ AcceptedKeys

\* the indices f+1, ..., n-1, 0, ..., f in that order (0, ..., n-1 when
\* f = -1)
CyclicOrder(f, n) == [k \in 1..n |-> (f + k) % n]

\* C26: an accepted keystroke with buffer b after the append and focused
\* index f moves the focus to the first index in the cyclic order f+1, ...,
\* n-1, 0, ..., f whose lower-cased label starts with lower-cased b; when no
\* label matches, focusedId is unchanged and the buffer keeps the key.
C26_TypeaheadJump ==
    \A e \in AcceptedKeys :
        Len(currentBuffer) < MaxBuffer =>
            LET b == Append(currentBuffer, e.key)
                order == CyclicOrder(focusedIndex, Len(items))
                hits == {k \in 1..Len(items) :
                            labelMatches(order[k], toLowerCase(b))}
                first == CHOOSE k \in hits : \A j \in hits : k <= j
                after == keypressFocus(FocusNow, TypeaheadNow, e)
            IN /\ keypressTypeahead(TypeaheadNow, e).buf = b
               /\ IF hits = {} THEN after.fid = focusedId /\ after.notes = 0
                  ELSE after.fid = At(items, order[first])

C26_Witness ==
    /\ items = <<2, 3, 1>>
    /\ currentBuffer = <<"a", "b">>
    /\ focusedId = 3 /\ focusNotes = 1

C28_SingleTimer ==
    /\ Cardinality(timers) <= 1
    /\ (timers # {}) <=> (currentBuffer # << >>)
    /\ timers = IF timeoutId = Null THEN {} ELSE {timeoutId}

C28_Witness ==
    /\ Len(currentBuffer) = 2
    /\ timeoutId = 2 /\ timers = {2}

\* C29: after an accepted keystroke its timer h is pending; unless a further
\* keystroke is accepted and supersedes h, the expiry of h empties the
\* buffer and leaves no timer pending.
C29_BufferExpires ==
    \A h \in TimerIds :
        (timeoutId = h /\ currentBuffer # << >>)
            ~> (/\ timeoutId # h
                /\ timeoutId = Null => (currentBuffer = << >> /\ timers = {}))

C29_Witness ==
    /\ currentBuffer = << >> /\ timeoutId = Null /\ timers = {}
    /\ focusedId # Null

\* the indices of the rendered items whose rectangle, in content
\* coordinates, meets the marquee rectangle r (touching counts)
HitIndices(r, rows) ==
    {i \in renderedIndices(rows) :
        LET left == (i % columnCount) * (props.itemWidth + props.gap) + props.gap
            top == (i \div columnCount) * (props.itemHeight + props.gap)
                     + props.gap + props.headerOffset
        IN /\ Min(r.startX, r.endX) <= left + props.itemWidth
           /\ Max(r.startX, r.endX) >= left
           /\ Min(r.startY, r.endY) <= top + props.itemHeight
           /\ Max(r.startY, r.endY) >= top}

HitIds(r, rows) == {At(items, i) : i \in HitIndices(r, rows)}

\* C30: after every updateMarquee and every auto-scroll step of an active
\* drag the selection passed to selectRange and held in selectedIds is base
\* \cup H, H the ids of the rendered items whose rectangle meets the marquee
\* and base the selection at drag start when Ctrl/Cmd was held, else empty.
C30_Original ==
    /\ \A e \in DownEvents :
          (enabled /\ e.button = 0) =>
              startMarquee(MarqueeNow, SelNow, e).previouslySelected
                  = IF e.mod THEN selectedIds ELSE {}
    /\ (isActive /\ rect # NoObject) =>
          \A e \in MoveEvents : \A rows \in RowWindows :
              LET after == updateMarqueeSelection(SelNow, MarqueeNow, e, rows)
                  union == previouslySelected
                             \cup HitIds(updateMarquee(MarqueeNow, e).rect, rows)
              IN after.sel = union /\ after.arg = union
    /\ (scrollLoopScrolls(MarqueeNow) /\ rect # NoObject) =>
          \A rows \in RowWindows :
              LET after == scrollLoopSelection(SelNow, MarqueeNow, rows)
                  union == previouslySelected
                             \cup HitIds(scrolled(MarqueeNow).rect, rows)
              IN after.sel = union /\ after.arg = union

\* C31: after endMarquee, called in any marquee state, isActive is false,
\* rect is null, the base snapshot is empty, no frame callback is pending
\* and the remembered pointer event is cleared; selectedIds is as before and
\* no selection change is reported.
C31_EndMarqueeIdle ==
    [][EndMarquee =>
          /\ ~isActive' /\ rect' = NoObject /\ previouslySelected' = {}
          /\ frames' = {} /\ scrollAnimationId' = Null
          /\ lastPointerEvent' = NoObject
          /\ selectedIds' = selectedIds /\ selNotes' = 0]_vars

C31_Witness ==
    /\ ~isActive /\ rect = NoObject /\ frames = {}
    /\ scroll.y > 0 /\ selectedIds # {}

\* C32: an active marquee implies that the enabled flag is true, and a
\* step that sets enabled to false leaves the marquee as endMarquee does.
C32_Original ==
    [][/\ isActive' => enabled'
       /\ (enabled /\ ~enabled') =>
             /\ ~isActive' /\ rect' = NoObject
             /\ frames' = {} /\ scrollAnimationId' = Null]_vars

\* C39: in every state reached by startMarquee, updateMarquee, endMarquee
\* and frame callbacks in any order, isActive is true exactly when rect is
\* non-null, at most one frame callback is pending, and one is pending only
\* while isActive is true.
C39_MarqueeStateMachine ==
    /\ isActive <=> (rect # NoObject)
    /\ Cardinality(frames) <= 1
    /\ (frames # {}) => isActive

\* a drag restarted by startMarquee while the previous one, never ended,
\* still has its frame pending
C39_Witness ==
    /\ isActive /\ rect # NoObject
    /\ frames = {scrollAnimationId}
    /\ lastPointerEvent # NoObject
    /\ rect.startX = rect.endX /\ rect.startY = rect.endY
    /\ rect.endX # lastPointerEvent.x - containerRect.left + scroll.x

\* C33: after the component is unmounted, in any state, no callback the
\* grid scheduled is pending: no auto-scroll frame and no typeahead timer.
C33_Original == ~mounted => (frames = {} /\ timers = {})

\* C34: the focusedId v-model is a two-way binding: when the watcher has run
\* on a model value that is null or the id of a listed item the internal
\* focus equals it, and after an internal focus change the model equals the
\* internal focus.
C34_Original ==
    [][/\ (/\ FlushFocusWatch
           /\ (focusedIdModel = Null \/ focusedIdModel \in Range(items)))
          => focusedId' = focusedIdModel
       /\ focusedId' # focusedId => focusedIdModel' = focusedId']_vars

\* the distance of a pointer coordinate to the nearer edge of its axis
edgeDistance(pointer, size) == Min(pointer, size - pointer)

\* the step of one axis is at most SCROLL_SPEED, 0 further than
\* EDGE_THRESHOLD from both edges, and linear in the proximity otherwise
stepAsClaimed(v, pointer, size) ==
    /\ v <= SCROLL_SPEED /\ 0 - v <= SCROLL_SPEED
    /\ edgeDistance(pointer, size) > EDGE_THRESHOLD => v = 0
    /\ edgeDistance(pointer, size) <= EDGE_THRESHOLD =>
          EDGE_THRESHOLD * (IF v < 0 THEN 0 - v ELSE v)
              = SCROLL_SPEED * (EDGE_THRESHOLD - edgeDistance(pointer, size))

\* C35: for every pointer position of an active drag, at or beyond the
\* container's edges included, the auto-scroll step of a frame is at most
\* 15 px on each axis, 0 when the pointer is more than 40 px from both
\* edges of the axis, and linear in the proximity to the edge otherwise.
C35_Original ==
    (isActive /\ lastPointerEvent # NoObject) =>
        /\ stepAsClaimed(getScrollVelocity(lastPointerEvent).x,
                         lastPointerEvent.x - containerRect.left,
                         containerRect.width)
        /\ stepAsClaimed(getScrollVelocity(lastPointerEvent).y,
                         lastPointerEvent.y - containerRect.top,
                         containerRect.height)

\* the item at an index lies fully within the viewport at scroll offset y
fullyInView(index, y) ==
    /\ scrollItemTop(index) >= y
    /\ scrollItemBottom(index) <= y + containerRect.height

Distance(a, b) == IF a < b THEN b - a ELSE a - b

\* C36: scrollToIndex(index, 'auto') with rowHeight <= viewportHeight leaves
\* scrollTop alone when the item is fully in view, otherwise sets it to the
\* item's top (item above) or to the item's bottom minus the viewport height
\* (item below), which is the nearest offset showing the item fully;
\* afterwards the item is fully in view and a second call changes nothing.
C36_ScrollToIndexAuto ==
    props.itemHeight <= containerRect.height =>
        \A index \in 0..(Len(items) - 1) :
            \A after \in scrollToIndex(scroll.y, index, "auto", mounted) :
                /\ scrollToIndex(scroll.y, index, "auto", mounted) = {after}
                /\ fullyInView(index, scroll.y) => after = scroll.y
                /\ scrollItemTop(index) < scroll.y =>
                      after = scrollItemTop(index)
                /\ (/\ scrollItemTop(index) >= scroll.y
                    /\ scrollItemBottom(index) > scroll.y + containerRect.height)
                      => after = scrollItemBottom(index) - containerRect.height
                /\ fullyInView(index, after)
                /\ \A y \in 0..scrollMax.y :
                      fullyInView(index, y) =>
                          Distance(scroll.y, after) <= Distance(scroll.y, y)
                /\ scrollToIndex(after, index, "auto", mounted) = {after}

\* the third row of a one-column list was below the viewport and now ends
\* at the viewport's bottom
C36_Witness ==
    /\ columnCount = 1 /\ Len(items) = MaxFixedLen
    /\ scroll.y = scrollItemBottom(2) - containerRect.height
    /\ scroll.y \notin ScrollTops
    /\ ~fullyInView(2, 0) /\ fullyInView(2, scroll.y)

\* the indices of the selected ids
selectedIndices == {i \in 0..(Len(items) - 1) : At(items, i) \in selectedIds}

\* the pivot of a run of Shift presses as the claim has it: the focused
\* index before the first press, later the end of the selected range that
\* is not the focused one
runPivot ==
    LET f == focusedIndexOf(FocusNow) IN
    IF selectedIds = {} THEN f
    ELSE IF \A i \in selectedIndices : f <= i
    THEN CHOOSE i \in selectedIndices : \A j \in selectedIndices : j <= i
    ELSE CHOOSE i \in selectedIndices : \A j \in selectedIndices : i <= j

\* C37: consecutive Shift+navigation presses with anchorId null at the first
\* press use one fixed pivot: after every press the selection is the index
\* range between the index focused before the first press and the index
\* focused now.
C37_Original ==
    [][(anchorId = Null /\ selNotes' > 0) =>
          selectedIds' =
              {At(items, i) :
                  i \in Min(runPivot, findIndex(items, focusedId'))
                        ..Max(runPivot, findIndex(items, focusedId'))}]_vars

\* C38: no range computation reads an index outside the current list,
\* whatever the order of list replacement, map rebuild and grid.selectRange,
\* Shift+click or Shift+navigation, also with an anchor that left the list.
C38_Original ==
    /\ \A a, b \in Ids : ~gridSelectRangeThrows(a, b)
    /\ \A e \in PointerEvents(Ids) : ~pointerDownThrows(SelNow, e)
    /\ \A e \in GridKeyEvents : \A vr \in KeyRowsFor(e) :
          ~keydownThrows(SelNow, FocusNow, e, vr)

\* key events useExplorerGrid.handleKeydown passes to the typeahead
RoutedKeys == {e \in TypeEvents : routesToTypeahead(e)}

====
